---- MODULE Spec2Model ----
(***************************************************************************)
(* A model of beem, the chat relay bot of src/beem: the WebTiles watch     *)
(* scheduler (webtiles.py), the Twitch message budget (twitch.py), the     *)
(* chat command rate limit (chat.py) and the knowledge-bot query router    *)
(* (dcss.py).  Every component runs as a task of one cooperative event     *)
(* loop: an action of the model is the code a task runs between two        *)
(* suspension points.                                                      *)
(***************************************************************************)
EXTENDS Integers, Sequences, FiniteSets, TLC

\* Python's None: for a name, for a GameConnection reference, for a timestamp
\* (a timestamp is tested for truth, and time.time() is never 0)
None == "None"
\* no call made
NoCall == [op |-> "none"]
NoConn == 0
NoTime == 0

(***************************************************************************)
(* Time.  time.time() is modelled by the clock `now`, which starts above 0 *)
(* (a timestamp is never falsy) and is advanced by the environment.        *)
(***************************************************************************)
MaxTime == 11
StartTime == 1
\* messages and commands the environment of the watch scheduler issues in a run
MaxEvents == 6

(***************************************************************************)
(* WebTiles configuration and program constants.                           *)
(***************************************************************************)
Users == {"alice", "bob"}
GameIds == {"dcss-0.32"}
OldGameIds == {"dcss-0.09"}
never_watch == {}
max_watched_subscribers == 1
max_game_idle == 10
game_rewatch_timeout == 10
min_autowatch_spectators == 1
autowatch_enabled == TRUE
MaxSpectators == 1
\* seconds the environment lets pass between two observations of the clock
WtTimeStep == 5
\* webtiles.py: _REWATCH_WAIT
REWATCH_WAIT == 5

ConnIds == 1..(max_watched_subscribers + 2)

VARIABLES
    now,              \* time.time()
    subscription,     \* user db: webtiles subscription field per user
    dcss_logged_in,   \* dcss_manager.logged_in
    lobby_entries,    \* lobby.lobby_entries, in list order
    lobby_complete,   \* lobby.lobby_complete
    autowatch,        \* WebTilesManager.autowatch
    subscriber_conns, \* WebTilesManager.subscriber_conns
    conns,            \* the GameConnection objects, by identity
    watch_queue,      \* WebTilesManager.watch_queue
    pc,               \* where WebTilesManager.start is suspended
    qsnap,            \* process_queue: list(self.watch_queue), by username
    qi,               \* process_queue: index of the entry being processed
    qdrop,            \* process_queue: locals saved across stop_connection
    qlog,             \* history: what this tick did for each queue entry
    events,           \* history: messages and commands received so far
    stop_pc,          \* where WebTilesManager.stop is suspended
    stop_todo,        \* stop: the rest of list(self.subscriber_conns)
    lobby_task        \* lobby.task is running

stopVars == <<stop_pc, stop_todo, lobby_task>>

wtVars == <<subscription, dcss_logged_in, lobby_entries, lobby_complete,
            autowatch, subscriber_conns, conns, watch_queue, pc, qsnap, qi,
            qdrop, qlog, events, stopVars>>

\* the scheduler's own variables: dcss_logged_in belongs to the router
wtOwnVars == <<subscription, lobby_entries, lobby_complete, autowatch,
               subscriber_conns, conns, watch_queue, pc, qsnap, qi, qdrop,
               qlog, events, stopVars>>

\* the Twitch manager of twitch.py
VARIABLES
    tw_connected,        \* TwitchManager.is_connected()
    message_count,       \* TwitchManager.message_count
    time_last_message,   \* TwitchManager.time_last_message
    sent_normal_message, \* TwitchManager.sent_normal_message
    channels,            \* TwitchManager.channels
    tw_watch_queue,      \* TwitchManager.watch_queue
    tv_log,              \* history: the outbound attempts of the last step
    tv_check,            \* history: the last test of timeout_finished
    last_out,            \* history: time of the last message transmitted
    tw_parted,           \* history: users parted by command, no join since
    tw_joined            \* history: users whose IRC channel the bot is in

tvVars == <<tw_connected, message_count, time_last_message,
            sent_normal_message, channels, tw_watch_queue, tv_log, tv_check,
            last_out, tw_parted, tw_joined>>

\* the command rate limit of one chat source (chat.py)
VARIABLES
    message_times,  \* ChatWatcher.message_times
    attempts,       \* history: the times of all recorded command attempts
    executed,       \* history: the times of the recorded commands that ran
    chat_last       \* history: the last message read by read_chat

chatVars == <<message_times, attempts, executed, chat_last>>

\* the knowledge-bot query router of dcss.py
VARIABLES
    bots_ready,           \* init_query_data has run (connect was called)
    dcss_alive,           \* the task of DCSSManager.start has not died
    live_sources,         \* the idents get_source_by_ident finds a source for
    queries,              \* IRCBot.queries, per bot
    queue,                \* IRCBot.queue, per bot
    last_answered_query,  \* IRCBot.last_answered_query, per bot
    pending,              \* the queries each bot has received and not
                          \* finished answering
    nq,                   \* history: queries submitted or relayed so far
    ev,                   \* history: the last operation of the router
    manager               \* the task of DCSSManager.start: where it waits

dcssVars == <<bots_ready, dcss_alive, live_sources, queries, queue,
              last_answered_query, pending, nq, ev, manager>>

\* a function of the program called on its own: the arguments of the call
\* and what it returned
VARIABLES
    call_in,
    call_out

callVars == <<call_in, call_out>>

\* the user database of botdb.py
VARIABLES
    db_loaded,   \* load_db has filled BotDB.db_data
    db_data,     \* BotDB.db_data: per table, the rows by key
    db_store     \* the rows of the sqlite3 tables in db_file

dbVars == <<db_loaded, db_data, db_store>>

vars == <<now, wtVars, tvVars, chatVars, dcssVars, callVars, dbVars>>

(***************************************************************************)
(* Eligibility predicates of webtiles.py.                                  *)
(***************************************************************************)
\* single_user is off; names are compared in lower case, as Users are.
can_watch_user_ignoring_unsubscribe(user) == user \notin never_watch

can_watch_user(user) ==
    /\ user \notin never_watch
    /\ ~(subscription[user] < 0)

user_is_subscribed(user) == subscription[user] > 0

\* re.search(r"([.0-9]+)", game_id), float(), version < 0.10: the game ids
\* whose version parses below 0.10 are OldGameIds.
is_game_allowed(username, game_id) ==
    /\ can_watch_user(username)
    /\ game_id \notin OldGameIds

\* idle_time + time.time() - time_last_update
EffectiveIdle(entry, t) == entry.idle_time + t - entry.time_last_update

\* GameConnection.__init__: logged_in is the field of the webtiles package
\* that its handler of login_success sets
NewGameConnection(username, game_id) ==
    [game_username |-> username, game_id |-> game_id, watching |-> FALSE,
     task |-> "running", logged_in |-> FALSE, time_since_request |-> NoTime]

NoConnection ==
    [game_username |-> None, game_id |-> None, watching |-> FALSE,
     task |-> "none", logged_in |-> FALSE, time_since_request |-> NoTime]

(***************************************************************************)
(* The scheduler state a tick works on: S.aw is self.autowatch, S.subs is  *)
(* self.subscriber_conns, S.cn the connection objects, S.wq is             *)
(* self.watch_queue and S.log the history of the tick.                     *)
(***************************************************************************)
SchedState == [aw |-> autowatch, subs |-> subscriber_conns, cn |-> conns,
               wq |-> watch_queue, log |-> qlog]

\* get_connection that does not look at the autowatch slot
get_connection_subscribers_only(S, username, game_id) ==
    IF \E c \in S.subs : /\ S.cn[c].game_username # None
                         /\ S.cn[c].game_username = username
                         /\ S.cn[c].game_id = game_id
    THEN CHOOSE c \in S.subs : /\ S.cn[c].game_username # None
                               /\ S.cn[c].game_username = username
                               /\ S.cn[c].game_id = game_id
    ELSE NoConn

get_connection(S, username, game_id) ==
    IF /\ S.aw # NoConn
       /\ S.cn[S.aw].game_username # None
       /\ S.cn[S.aw].game_username = username
       /\ S.cn[S.aw].game_id = game_id
    THEN S.aw
    ELSE IF \E c \in S.subs : /\ S.cn[c].game_username # None
                              /\ S.cn[c].game_username = username
                              /\ S.cn[c].game_id = game_id
         THEN CHOOSE c \in S.subs : /\ S.cn[c].game_username # None
                                    /\ S.cn[c].game_username = username
                                    /\ S.cn[c].game_id = game_id
         ELSE NoConn

\* get_queue_entry ignores game_id; 0 stands for "no entry".
get_queue_entry(wq, username) ==
    IF \E k \in 1..Len(wq) : wq[k].username = username
    THEN CHOOSE k \in 1..Len(wq) :
             /\ wq[k].username = username
             /\ \A j \in 1..(k - 1) : wq[j].username # username
    ELSE 0

add_queue(wq, username, game_id) ==
    Append(wq, [username |-> username, game_id |-> game_id,
                time_end |-> NoTime])

\* lobby.get_lobby_entry: the index of the entry in lobby_entries, 0 for None
get_lobby_entry(username, game_id) ==
    IF \E k \in 1..Len(lobby_entries) :
           /\ lobby_entries[k].username = username
           /\ lobby_entries[k].game_id = game_id
    THEN CHOOSE k \in 1..Len(lobby_entries) :
             /\ lobby_entries[k].username = username
             /\ lobby_entries[k].game_id = game_id
             /\ \A j \in 1..(k - 1) :
                    ~(/\ lobby_entries[j].username = username
                      /\ lobby_entries[j].game_id = game_id)
    ELSE 0

RemoveAt(seq, k) == SubSeq(seq, 1, k - 1) \o SubSeq(seq, k + 1, Len(seq))

set_watch_end(wq, conn, t) ==
    LET k == get_queue_entry(wq, conn.game_username)
    IN  IF k = 0 THEN wq ELSE [wq EXCEPT ![k].time_end = t]

\* stop_connection up to its suspension in conn.disconnect().  The task of
\* the connection is cancelled and nothing refers to the object any more:
\* it is recorded as NoConnection.
stop_connection(S, c, t) ==
    LET cancelled == [S.cn EXCEPT ![c] = NoConnection]
    IN  IF c = S.aw
        THEN [S EXCEPT !.cn = cancelled, !.aw = NoConn]
        ELSE IF c \in S.subs
             THEN [S EXCEPT !.cn = cancelled,
                            !.wq = IF S.cn[c].watching
                                   THEN set_watch_end(S.wq, S.cn[c], t)
                                   ELSE S.wq,
                            !.subs = S.subs \ {c}]
             ELSE [S EXCEPT !.cn = cancelled]

\* a GameConnection object that is not in use
FreeConn(S) ==
    CHOOSE c \in ConnIds : /\ c \notin S.subs
                           /\ c # S.aw
                           /\ S.cn[c].task # "running"
                           /\ \A d \in ConnIds :
                                  (/\ d \notin S.subs
                                   /\ d # S.aw
                                   /\ S.cn[d].task # "running") => c <= d

\* new_subscriber_conn without its capacity check
new_subscriber_conn_unchecked(S, username, game_id) ==
    LET c == FreeConn(S)
    IN  [S EXCEPT !.cn[c] = NewGameConnection(username, game_id),
                  !.subs = S.subs \cup {c}]

\* new_subscriber_conn that refuses whatever the number of sessions
new_subscriber_conn_refusing(S, username, game_id) == S

new_subscriber_conn(S, username, game_id) ==
    IF Cardinality(S.subs) >= max_watched_subscribers
    THEN S
    ELSE LET c == FreeConn(S)
         IN  [S EXCEPT !.cn[c] = NewGameConnection(username, game_id),
                       !.subs = S.subs \cup {c}]

(***************************************************************************)
(* process_lobby: walk lobby_entries in list order from entry i, adding    *)
(* subscribed users to the watch queue and keeping the best autowatch      *)
(* candidate so far (in aspec, agame; <<>> is "no candidate").             *)
(***************************************************************************)
\* IsAutowatchCandidate where the order of iteration decides a tie
IsAutowatchCandidate_by_order(S, entry, conn, aspec) ==
    LET no_free_slot ==
            /\ conn \notin S.subs
            /\ Cardinality(S.subs) >= max_watched_subscribers
    IN  /\ autowatch_enabled
        /\ dcss_logged_in
        /\ entry.spectator_count >= min_autowatch_spectators
        /\ (~user_is_subscribed(entry.username) \/ no_free_slot)
        /\ entry.spectator_count >= aspec

\* IsAutowatchCandidate where a subscriber competes whenever the slots are
\* taken, also when the session of the game holds one of them
IsAutowatchCandidate_slots_taken(S, entry, conn, aspec) ==
    LET no_free_slot == Cardinality(S.subs) >= max_watched_subscribers
    IN  /\ autowatch_enabled
        /\ dcss_logged_in
        /\ entry.spectator_count >= min_autowatch_spectators
        /\ (~user_is_subscribed(entry.username) \/ no_free_slot)
        /\ \/ /\ conn # NoConn
              /\ conn = S.aw
              /\ entry.spectator_count = aspec
           \/ entry.spectator_count > aspec

IsAutowatchCandidate(S, entry, conn, aspec) ==
    LET no_free_slot ==
            /\ conn \notin S.subs
            /\ Cardinality(S.subs) >= max_watched_subscribers
    IN  /\ autowatch_enabled
        /\ dcss_logged_in
        /\ entry.spectator_count >= min_autowatch_spectators
        /\ (~user_is_subscribed(entry.username) \/ no_free_slot)
        /\ \/ /\ conn # NoConn
              /\ conn = S.aw
              /\ entry.spectator_count = aspec
           \/ entry.spectator_count > aspec

RECURSIVE process_lobby_from(_, _, _, _, _, _)
process_lobby_from(S, i, wq, aspec, agame, t) ==
    IF i > Len(lobby_entries)
    THEN [wq |-> wq, game |-> agame]
    ELSE LET entry == lobby_entries[i]
             conn == get_connection(S, entry.username, entry.game_id)
             wq1 == IF /\ user_is_subscribed(entry.username)
                       /\ get_queue_entry(wq, entry.username) = 0
                    THEN add_queue(wq, entry.username, entry.game_id)
                    ELSE wq
         IN  IF \/ ~is_game_allowed(entry.username, entry.game_id)
                \/ EffectiveIdle(entry, t) >= max_game_idle
             THEN process_lobby_from(S, i + 1, wq, aspec, agame, t)
             ELSE IF IsAutowatchCandidate(S, entry, conn, aspec)
                  THEN process_lobby_from(S, i + 1, wq1,
                           entry.spectator_count,
                           <<entry.username, entry.game_id>>, t)
                  ELSE process_lobby_from(S, i + 1, wq1, aspec, agame, t)

process_lobby(S, t) == process_lobby_from(S, 1, S.wq, -1, <<>>, t)

\* do_autowatch_game; susp tells whether it suspended (in send_watch_game)
do_autowatch_game(S, game) ==
    IF /\ S.aw # NoConn
       /\ S.cn[S.aw].game_username = game[1]
       /\ S.cn[S.aw].game_id = game[2]
    THEN [S |-> S, susp |-> FALSE]
    ELSE IF S.aw = NoConn
         THEN LET c == FreeConn(S)
              IN  [S |-> [S EXCEPT !.cn[c] =
                                       NewGameConnection(game[1], game[2]),
                                   !.aw = c],
                   susp |-> FALSE]
         ELSE [S |-> [S EXCEPT !.cn[S.aw].game_username = game[1],
                               !.cn[S.aw].game_id = game[2],
                               !.cn[S.aw].watching = FALSE],
               susp |-> TRUE]

\* check_current_autowatch that also asks for the spectators of a candidate
check_current_autowatch_min_spectators(S, t) ==
    IF S.aw = NoConn
    THEN [S |-> S, susp |-> FALSE]
    ELSE LET k == get_lobby_entry(S.cn[S.aw].game_username,
                                  S.cn[S.aw].game_id)
         IN  IF k = 0
             THEN [S |-> S, susp |-> FALSE]
             ELSE IF \/ ~is_game_allowed(S.cn[S.aw].game_username,
                                         S.cn[S.aw].game_id)
                     \/ ~dcss_logged_in
                     \/ EffectiveIdle(lobby_entries[k], t) >= max_game_idle
                     \/ lobby_entries[k].spectator_count
                            < min_autowatch_spectators
                  THEN [S |-> stop_connection(S, S.aw, t), susp |-> TRUE]
                  ELSE [S |-> S, susp |-> FALSE]

check_current_autowatch(S, t) ==
    IF S.aw = NoConn
    THEN [S |-> S, susp |-> FALSE]
    ELSE LET k == get_lobby_entry(S.cn[S.aw].game_username,
                                  S.cn[S.aw].game_id)
         IN  IF k = 0
             THEN [S |-> S, susp |-> FALSE]
             ELSE IF \/ ~is_game_allowed(S.cn[S.aw].game_username,
                                         S.cn[S.aw].game_id)
                     \/ ~dcss_logged_in
                     \/ EffectiveIdle(lobby_entries[k], t) >= max_game_idle
                  THEN [S |-> stop_connection(S, S.aw, t), susp |-> TRUE]
                  ELSE [S |-> S, susp |-> FALSE]

(***************************************************************************)
(* process_queue.  ProcessEntry is one iteration of its loop for the       *)
(* snapshot entry of `username`, up to the suspension in stop_connection   *)
(* when the session is stopped; drop is what the code decides after that   *)
(* suspension from the locals allowed, idle, lobby and expired.            *)
(***************************************************************************)
NoLog == [pre |-> FALSE, ready |-> FALSE, nsubs |-> 0, out |-> "none",
          allowed |-> FALSE, idle |-> FALSE, lobby |-> FALSE,
          time_end |-> NoTime, elapsed |-> 0, session |-> FALSE,
          removed |-> FALSE, fin |-> FALSE, conn |-> NoConn, aw |-> NoConn]

\* process_queue: the local `expired`, true for an entry that has no
\* time_end; wt_expired_ended is false for such an entry
wt_expired_ended(entry, t) ==
    /\ entry.time_end # NoTime
    /\ t - entry.time_end >= game_rewatch_timeout

wt_expired(entry, t) ==
    \/ entry.time_end = NoTime
    \/ t - entry.time_end >= game_rewatch_timeout

\* process_queue: the local `wait`; wt_wait_never is without the cooldown
wt_wait_never(entry, t) == FALSE

wt_wait(entry, t) ==
    /\ entry.time_end # NoTime
    /\ t - entry.time_end < REWATCH_WAIT

\* process_queue: an autowatched subscriber is given a subscriber slot;
\* promote_keeping_autowatch leaves the session in the autowatch slot too
promote_keeping_autowatch(S, conn) ==
    [S EXCEPT !.subs = S.subs \cup {conn}]

promote(S, conn) ==
    [S EXCEPT !.subs = S.subs \cup {conn}, !.aw = NoConn]

ProcessEntry(S, username, t) ==
    LET e == get_queue_entry(S.wq, username)
        entry == S.wq[e]
        lobby == get_lobby_entry(entry.username, entry.game_id)
        idle_time == IF lobby # 0
                     THEN EffectiveIdle(lobby_entries[lobby], t)
                     ELSE 0
        conn == get_connection(S, entry.username, entry.game_id)
        idle == idle_time >= max_game_idle
        allowed == is_game_allowed(entry.username, entry.game_id)
        wait == wt_wait(entry, t)
        drop == ~allowed \/ idle \/ (lobby = 0 /\ wt_expired(entry, t))
        end_reason == ~allowed \/ ~dcss_logged_in \/ idle
        rec(out) == [pre |-> lobby # 0 /\ allowed /\ ~idle /\ ~wait,
                     ready |-> dcss_logged_in,
                     nsubs |-> Cardinality(S.subs),
                     out |-> out,
                     allowed |-> allowed, idle |-> idle,
                     lobby |-> lobby # 0,
                     time_end |-> entry.time_end,
                     elapsed |-> IF entry.time_end # NoTime
                                 THEN t - entry.time_end
                                 ELSE 0,
                     session |-> conn # NoConn,
                     removed |-> out = "dropped",
                     fin |-> out # "stopped",
                     conn |-> conn, aw |-> S.aw]
        Log(T, out) == [T EXCEPT !.log[username] = rec(out)]
    IN  IF conn # NoConn /\ end_reason
        THEN [S |-> Log(stop_connection(S, conn, t), "stopped"),
              susp |-> TRUE, drop |-> drop]
        ELSE IF /\ conn # NoConn
                /\ conn = S.aw
                /\ Cardinality(S.subs) < max_watched_subscribers
        THEN [S |-> Log(promote(S, conn), "promoted"),
              susp |-> FALSE, drop |-> FALSE]
        ELSE IF drop
        THEN [S |-> Log([S EXCEPT !.wq = RemoveAt(S.wq, e)], "dropped"),
              susp |-> FALSE, drop |-> FALSE]
        ELSE IF ~dcss_logged_in \/ lobby = 0 \/ wait \/ conn # NoConn
        THEN [S |-> Log(S, IF conn # NoConn THEN "kept"
                           ELSE IF ~dcss_logged_in THEN "notready"
                           ELSE IF lobby = 0 THEN "nolobby"
                           ELSE "wait"),
              susp |-> FALSE, drop |-> FALSE]
        ELSE LET T == new_subscriber_conn(S, entry.username, entry.game_id)
             IN  [S |-> Log(T, IF T = S THEN "refused" ELSE "started"),
                  susp |-> FALSE, drop |-> FALSE]

\* the loop of process_queue from snapshot index i to its next suspension
RECURSIVE process_queue_from(_, _, _, _)
process_queue_from(S, i, snap, t) ==
    IF i > Len(snap)
    THEN [S |-> S, pc |-> "done", qi |-> 0, qdrop |-> FALSE,
          qsnap |-> <<>>]
    ELSE LET r == ProcessEntry(S, snap[i], t)
         IN  IF r.susp
             THEN [S |-> r.S, pc |-> "stop_connection", qi |-> i,
                   qdrop |-> r.drop, qsnap |-> snap]
             ELSE process_queue_from(r.S, i + 1, snap, t)

\* list(self.watch_queue): the entries, named by their username
QueueSnapshot(wq) == [k \in 1..Len(wq) |-> wq[k].username]

Commit(r) ==
    /\ autowatch' = r.S.aw
    /\ subscriber_conns' = r.S.subs
    /\ conns' = r.S.cn
    /\ watch_queue' = r.S.wq
    /\ qlog' = r.S.log
    /\ pc' = r.pc
    /\ qi' = r.qi
    /\ qdrop' = r.qdrop
    /\ qsnap' = r.qsnap

(***************************************************************************)
(* WebTilesManager.start: one pass of its loop, cut at its suspensions.    *)
(***************************************************************************)
\* from the wake-up after sleep(0.1) to the first suspension
TickStart ==
    /\ stop_pc # "done"
    /\ pc = "sleep"
    /\ lobby_task' = TRUE
    /\ LET S0 == SchedState
           pl == IF lobby_complete
                 THEN process_lobby(S0, now)
                 ELSE [wq |-> S0.wq, game |-> <<>>]
           S1 == [S0 EXCEPT !.wq = pl.wq]
           a == IF pl.game # <<>>
                THEN do_autowatch_game(S1, pl.game)
                ELSE check_current_autowatch(S1, now)
       IN  IF a.susp
           THEN Commit([S |-> a.S, pc |-> "process_queue", qi |-> 0,
                        qdrop |-> FALSE, qsnap |-> <<>>])
           ELSE Commit(process_queue_from(a.S, 1, QueueSnapshot(a.S.wq),
                                          now))
    /\ UNCHANGED <<now, subscription, dcss_logged_in, lobby_entries,
                   lobby_complete, events, stop_pc, stop_todo>>
    /\ UNCHANGED <<tvVars, chatVars, dcssVars,
                   callVars, dbVars>>

\* process_queue entered after do_autowatch_game or check_current_autowatch
\* suspended
QueueStart ==
    /\ stop_pc # "done"
    /\ pc = "process_queue"
    /\ Commit(process_queue_from(SchedState, 1, QueueSnapshot(watch_queue),
                                 now))
    /\ UNCHANGED <<now, subscription, dcss_logged_in, lobby_entries,
                   lobby_complete, events, stopVars>>
    /\ UNCHANGED <<tvVars, chatVars, dcssVars,
                   callVars, dbVars>>

\* process_queue resumed after the stop_connection of entry qi
QueueResume ==
    /\ stop_pc # "done"
    /\ pc = "stop_connection"
    /\ LET e == get_queue_entry(watch_queue, qsnap[qi])
           S0 == [SchedState EXCEPT !.log[qsnap[qi]].fin = TRUE,
                                    !.log[qsnap[qi]].removed =
                                        qdrop /\ e # 0]
           S == IF qdrop /\ e # 0
                THEN [S0 EXCEPT !.wq = RemoveAt(watch_queue, e)]
                ELSE S0
       IN  Commit(process_queue_from(S, qi + 1, qsnap, now))
    /\ UNCHANGED <<now, subscription, dcss_logged_in, lobby_entries,
                   lobby_complete, events, stopVars>>
    /\ UNCHANGED <<tvVars, chatVars, dcssVars,
                   callVars, dbVars>>

\* process_queue has returned: the loop of start suspends in sleep(0.1)
TickEnd ==
    /\ stop_pc # "done"
    /\ pc = "done"
    /\ pc' = "sleep"
    /\ qlog' = [u \in Users |-> NoLog]
    /\ UNCHANGED <<now, subscription, dcss_logged_in, lobby_entries,
                   lobby_complete, autowatch, subscriber_conns, conns,
                   watch_queue, qsnap, qi, qdrop, events, stopVars>>
    /\ UNCHANGED <<tvVars, chatVars, dcssVars,
                   callVars, dbVars>>

(***************************************************************************)
(* The other tasks and the environment of the scheduler.  They run while   *)
(* the scheduler task is suspended.                                        *)
(***************************************************************************)
schedLocals == <<pc, qsnap, qi, qdrop, qlog>>

Suspended == pc \in {"sleep", "process_queue", "stop_connection"}

\* a message or command is handled while the scheduler is suspended
EnvStep ==
    /\ Suspended
    /\ events < MaxEvents
    /\ events' = events + 1

\* a game session stops itself: GameConnection.start calls
\* webtiles_manager.stop_connection(self)
SessionStop(c) ==
    /\ EnvStep
    /\ conns[c].task = "running"
    /\ LET S == stop_connection(SchedState, c, now)
       IN  /\ autowatch' = S.aw
           /\ subscriber_conns' = S.subs
           /\ conns' = S.cn
           /\ watch_queue' = S.wq
    /\ UNCHANGED <<now, subscription, dcss_logged_in, lobby_entries,
                   lobby_complete, schedLocals, stopVars>>
    /\ UNCHANGED <<tvVars, chatVars, dcssVars,
                   callVars, dbVars>>

\* the server answers a watch request with watching_started
WatchingStarted(c) ==
    /\ EnvStep
    /\ conns[c].task = "running"
    /\ ~conns[c].watching
    /\ conns' = [conns EXCEPT ![c].watching = TRUE,
                              ![c].time_since_request = NoTime]
    /\ UNCHANGED <<now, subscription, dcss_logged_in, lobby_entries,
                   lobby_complete, autowatch, subscriber_conns, watch_queue,
                   schedLocals, stopVars>>
    /\ UNCHANGED <<tvVars, chatVars, dcssVars,
                   callVars, dbVars>>

\* game_ended or go_lobby is read by a game session.  handle_message only
\* logs it and hands it to the handle_message of the webtiles package, which
\* keeps the fields of the connection and knows nothing of the manager.
\* Without watching_started the message is not for a watched game and is
\* passed over; for a watching session `lib` is what the package does to
\* the connection: nothing, clear watching, or clear watching and the game.
GameMessages == {"game_ended", "go_lobby"}
LibOutcomes == {"none", "watching", "game"}

handle_message(conn, msg, lib) ==
    IF ~conn.watching \/ lib = "none"
    THEN conn
    ELSE IF lib = "watching"
    THEN [conn EXCEPT !.watching = FALSE]
    ELSE [conn EXCEPT !.watching = FALSE, !.game_username = None,
                      !.game_id = None]

GameMessage(c, msg, lib) ==
    /\ EnvStep
    /\ conns[c].task = "running"
    /\ conns' = [conns EXCEPT ![c] = handle_message(conns[c], msg, lib)]
    /\ UNCHANGED <<now, subscription, dcss_logged_in, lobby_entries,
                   lobby_complete, autowatch, subscriber_conns, watch_queue,
                   schedLocals, stopVars>>
    /\ UNCHANGED <<tvVars, chatVars, dcssVars,
                   callVars, dbVars>>

\* lobby_entry message: insert or update, stamping the time of the update
LobbyEntry(username, game_id, spectator_count, idle_time) ==
    /\ EnvStep
    /\ lobby_task
    /\ LET k == get_lobby_entry(username, game_id)
           entry == [username |-> username, game_id |-> game_id,
                     spectator_count |-> spectator_count,
                     idle_time |-> idle_time, time_last_update |-> now]
       IN  lobby_entries' = IF k # 0
                            THEN [lobby_entries EXCEPT ![k] = entry]
                            ELSE Append(lobby_entries, entry)
    /\ UNCHANGED <<now, subscription, dcss_logged_in, lobby_complete,
                   autowatch, subscriber_conns, conns, watch_queue,
                   schedLocals, stopVars>>
    /\ UNCHANGED <<tvVars, chatVars, dcssVars,
                   callVars, dbVars>>

LobbyRemove(k) ==
    /\ EnvStep
    /\ lobby_task
    /\ k \in 1..Len(lobby_entries)
    /\ lobby_entries' = RemoveAt(lobby_entries, k)
    /\ UNCHANGED <<now, subscription, dcss_logged_in, lobby_complete,
                   autowatch, subscriber_conns, conns, watch_queue,
                   schedLocals, stopVars>>
    /\ UNCHANGED <<tvVars, chatVars, dcssVars,
                   callVars, dbVars>>

LobbyClear ==
    /\ EnvStep
    /\ lobby_task
    /\ lobby_entries # <<>> \/ lobby_complete
    /\ lobby_entries' = <<>>
    /\ lobby_complete' = FALSE
    /\ UNCHANGED <<now, subscription, dcss_logged_in, autowatch,
                   subscriber_conns, conns, watch_queue, schedLocals, stopVars>>
    /\ UNCHANGED <<tvVars, chatVars, dcssVars,
                   callVars, dbVars>>

LobbyComplete ==
    /\ EnvStep
    /\ lobby_task
    /\ ~lobby_complete
    /\ lobby_complete' = TRUE
    /\ UNCHANGED <<now, subscription, dcss_logged_in, lobby_entries,
                   autowatch, subscriber_conns, conns, watch_queue,
                   schedLocals, stopVars>>
    /\ UNCHANGED <<tvVars, chatVars, dcssVars,
                   callVars, dbVars>>

\* beem_subscribe_command / beem_unsubscribe_command
SetSubscription(user, value) ==
    /\ EnvStep
    /\ subscription[user] # value
    /\ subscription' = [subscription EXCEPT ![user] = value]
    /\ UNCHANGED <<now, dcss_logged_in, lobby_entries, lobby_complete,
                   autowatch, subscriber_conns, conns, watch_queue,
                   schedLocals, stopVars>>
    /\ UNCHANGED <<tvVars, chatVars, dcssVars,
                   callVars, dbVars>>

\* the knowledge-bot IRC connection comes up or goes down
DcssReady(value) ==
    /\ EnvStep
    /\ dcss_logged_in # value
    /\ dcss_logged_in' = value
    /\ UNCHANGED <<now, subscription, lobby_entries, lobby_complete,
                   autowatch, subscriber_conns, conns, watch_queue,
                   schedLocals, stopVars>>
    /\ UNCHANGED <<tvVars, chatVars, dcssVars,
                   callVars, dbVars>>

WtAdvanceTime ==
    /\ Suspended
    /\ now + WtTimeStep <= MaxTime
    /\ now' = now + WtTimeStep
    /\ UNCHANGED wtVars
    /\ UNCHANGED <<tvVars, chatVars, dcssVars,
                   callVars, dbVars>>

\* the scheduler after WebTilesManager.__init__; the user database holds
\* whatever subscriptions earlier runs left in it
InitWT ==
    /\ subscription \in [Users -> {-1, 0, 1}]
    /\ dcss_logged_in = FALSE
    /\ lobby_entries = <<>>
    /\ lobby_complete = FALSE
    /\ autowatch = NoConn
    /\ subscriber_conns = {}
    /\ conns = [c \in ConnIds |-> NoConnection]
    /\ watch_queue = <<>>
    /\ pc = "sleep"
    /\ qsnap = <<>>
    /\ qi = 0
    /\ qdrop = FALSE
    /\ qlog = [u \in Users |-> NoLog]
    /\ events = 0
    /\ stop_pc = "none"
    /\ stop_todo = {}
    /\ lobby_task = FALSE


\* the scheduler at rest, for the specifications of the other components
WtAtRest ==
    /\ InitWT
    /\ subscription = [u \in Users |-> 0]

(***************************************************************************)
(* The Twitch manager of twitch.py: the channels it has joined, its watch  *)
(* queue and its budget of outbound messages.                              *)
(***************************************************************************)
TwUsers == {"carol", "dave", "erin"}
BotNick == "beem"
tw_never_watch == {}
message_limit == 3
moderator_message_limit == 4
message_timeout == 5
tw_max_watched_subscribers == 2
min_idle == 3
request_expire_time == 6
\* seconds the environment lets pass between two observations of the clock
TvTimeStep == 3

TwitchChannel(username, t) ==
    [game_username |-> username, time_last_message |-> t,
     is_moderator |-> FALSE]

NoChannel ==
    [game_username |-> None, time_last_message |-> NoTime,
     is_moderator |-> FALSE]

\* the channel of the bot itself; its time_last_message is never read
bot_channel == TwitchChannel(BotNick, NoTime)

tw_can_watch_user(user) == user \notin tw_never_watch

able_to_watch == dcss_logged_in

\* The manager state a step works on.
TwState == [count |-> message_count, tlm |-> time_last_message,
            sent |-> sent_normal_message, chans |-> channels,
            wq |-> tw_watch_queue, log |-> <<>>, out |-> last_out,
            irc_fail |-> FALSE, evicted |-> {}, admitted |-> {},
            parted |-> tw_parted, irc |-> tw_joined]

\* message_limited with > for >=
message_limited_late(T, is_normal) ==
    LET limit == IF is_normal \/ T.sent
                 THEN message_limit
                 ELSE moderator_message_limit
    IN  T.count > limit

message_limited(T, is_normal) ==
    LET limit == IF is_normal \/ T.sent
                 THEN message_limit
                 ELSE moderator_message_limit
    IN  T.count >= limit

\* history: an outbound attempt that took the manager from T to T1
Attempt(T, T1, kind, is_normal, result) ==
    [T1 EXCEPT !.log = Append(T.log,
        [kind |-> kind, is_normal |-> is_normal, result |-> result,
         count |-> T.count, sent_normal |-> T.sent, tlm |-> T.tlm,
         count1 |-> T1.count, sent_normal1 |-> T1.sent, tlm1 |-> T1.tlm])]

tw_get_channel(T, username) ==
    IF username = BotNick
    THEN bot_channel
    ELSE IF \E c \in T.chans : c.game_username = username
         THEN CHOOSE c \in T.chans : c.game_username = username
         ELSE NoChannel

tw_get_queue_entry(wq, username) ==
    IF \E k \in 1..Len(wq) : wq[k].username = username
    THEN CHOOSE k \in 1..Len(wq) :
             /\ wq[k].username = username
             /\ \A j \in 1..(k - 1) : wq[j].username # username
    ELSE 0

tw_add_queue(wq, username) ==
    Append(wq, [username |-> username, parted |-> FALSE,
                time_request |-> NoTime])

\* ok is false when the code raises "reached message limit" or, with
\* irc_fail, when server.join raises IRCError after the count was taken
join_channel(T, channel, t) ==
    IF message_limited(T, TRUE)
    THEN [T |-> Attempt(T, T, "join", TRUE, "suppressed"), ok |-> FALSE]
    ELSE IF T.irc_fail
    THEN [T |-> Attempt(T, [T EXCEPT !.sent = TRUE, !.count = @ + 1],
                        "join", TRUE, "failed"),
          ok |-> FALSE]
    ELSE [T |-> Attempt(T, [T EXCEPT !.sent = TRUE, !.count = @ + 1,
                                     !.out = t,
                                     !.irc = @ \cup {channel.game_username}],
                        "join", TRUE, "transmitted"),
          ok |-> TRUE]

\* the channel is removed before the limit is tested, and the count is
\* taken before server.part is called: with irc_fail it raises IRCError.
\* The library raises it when the connection is gone, so that the bot is
\* then no longer in the channel.
stop_watching(T, chan, t) ==
    LET T0 == [T EXCEPT !.chans = @ \ {chan}]
    IN  IF message_limited(T0, TRUE)
        THEN [T |-> Attempt(T0, T0, "part", TRUE, "suppressed"),
              ok |-> FALSE]
        ELSE IF T0.irc_fail
        THEN [T |-> Attempt(T0, [T0 EXCEPT !.sent = TRUE, !.count = @ + 1,
                                           !.irc = @ \ {chan.game_username}],
                            "part", TRUE, "failed"),
              ok |-> FALSE]
        ELSE [T |-> Attempt(T0, [T0 EXCEPT !.sent = TRUE, !.count = @ + 1,
                                           !.out = t,
                                           !.irc = @ \ {chan.game_username}],
                            "part", TRUE, "transmitted"),
              ok |-> TRUE]

\* fail: the IRC library raises IRCError when sending
send_channel(T, chan, fail, t) ==
    IF message_limited(T, ~chan.is_moderator)
    THEN Attempt(T, T, "chat", ~chan.is_moderator, "suppressed")
    ELSE IF fail
    THEN Attempt(T, T, "chat", ~chan.is_moderator, "failed")
    ELSE LET stamped == [chan EXCEPT !.time_last_message = t]
         IN  Attempt(T,
                 [T EXCEPT !.chans = IF chan \in T.chans
                                     THEN (T.chans \ {chan}) \cup {stamped}
                                     ELSE T.chans,
                           !.tlm = IF T.tlm = NoTime THEN t ELSE T.tlm,
                           !.sent = IF ~chan.is_moderator THEN TRUE ELSE @,
                           !.count = @ + 1,
                           !.out = t],
                 "chat", ~chan.is_moderator, "transmitted")

\* The loop over self.channels stops at the first channel idle for min_idle:
\* the order of a set is not specified, so the channel of `pref` is met
\* first when it is idle.
IdleChannels(T, t) ==
    {c \in T.chans : /\ t - c.time_last_message >= min_idle
                     /\ t - c.time_last_message >= -1}

\* history: new_channel has returned without raising for `username`,
\* after parting the channel of `victim` (None without eviction); irc is
\* the user of the channel given to join_channel
Admitted(T, username, victim, chan) ==
    [T EXCEPT !.admitted = @ \cup
        {[for |-> username, victim |-> victim, irc |-> chan.game_username,
          joined |-> {c.game_username : c \in T.chans}]}]

new_channel(T, username, pref, t) ==
    IF Cardinality(T.chans) >= tw_max_watched_subscribers
    THEN IF IdleChannels(T, t) = {}
         THEN T
         ELSE LET idle_chan ==
                      IF \E c \in IdleChannels(T, t) : c.game_username = pref
                      THEN CHOOSE c \in IdleChannels(T, t) :
                               c.game_username = pref
                      ELSE CHOOSE c \in IdleChannels(T, t) : TRUE
                  T0 == [T EXCEPT !.evicted = @ \cup
                            {[for |-> username,
                              victim |-> idle_chan.game_username,
                              idle |-> t - idle_chan.time_last_message,
                              joined |-> {c.game_username : c \in T.chans},
                              idles |-> {t - c.time_last_message :
                                             c \in IdleChannels(T, t)}]}]
                  s == stop_watching(T0, idle_chan, t)
                  j == join_channel(s.T, idle_chan, t)
              IN  IF ~s.ok
                  THEN s.T
                  ELSE IF ~j.ok
                  THEN j.T
                  ELSE Admitted([j.T EXCEPT !.chans = @ \cup {idle_chan}],
                                username, idle_chan.game_username,
                                idle_chan)
    ELSE LET chan == TwitchChannel(username, t)
             j == join_channel(T, chan, t)
         IN  IF ~j.ok
             THEN j.T
             ELSE Admitted([j.T EXCEPT !.chans = @ \cup {chan}],
                           username, None, chan)

RECURSIVE update_queue_from(_, _, _, _, _)
update_queue_from(T, i, snap, pref, t) ==
    IF i > Len(snap)
    THEN T
    ELSE LET e == tw_get_queue_entry(T.wq, snap[i])
             entry == T.wq[e]
             chan == tw_get_channel(T, entry.username)
             allowed == tw_can_watch_user(entry.username)
             expired == /\ entry.time_request # NoTime
                        /\ t - entry.time_request >= request_expire_time
             leave == /\ chan # NoChannel
                      /\ \/ ~able_to_watch
                         \/ ~allowed
                         \/ entry.parted
                         \/ expired
             s == IF leave
                  THEN stop_watching(T, chan, t)
                  ELSE [T |-> T, ok |-> TRUE]
         IN  IF ~s.ok
             THEN update_queue_from(s.T, i + 1, snap, pref, t)
             ELSE IF ~allowed \/ entry.parted \/ expired
             THEN update_queue_from([s.T EXCEPT !.wq = RemoveAt(@, e)],
                                    i + 1, snap, pref, t)
             ELSE IF chan # NoChannel
             THEN update_queue_from(s.T, i + 1, snap, pref, t)
             ELSE update_queue_from(
                      new_channel(s.T, entry.username, pref, t),
                      i + 1, snap, pref, t)

update_queue(T, pref, t) ==
    update_queue_from(T, 1, [k \in 1..Len(T.wq) |-> T.wq[k].username],
                      pref, t)

timeout_finished(T, t) ==
    /\ T.tlm # NoTime
    /\ t - T.tlm > message_timeout

NoCheck == [count |-> 0, elapsed |-> FALSE, cleared |-> FALSE,
            evicted |-> {}, admitted |-> {}]

TwCommit(T) ==
    /\ message_count' = T.count
    /\ time_last_message' = T.tlm
    /\ sent_normal_message' = T.sent
    /\ channels' = T.chans
    /\ tw_watch_queue' = T.wq
    /\ tv_log' = T.log
    /\ last_out' = T.out
    /\ tw_parted' = T.parted
    /\ tw_joined' = T.irc

\* TwitchManager.connect: the bot joins its own channel
TwConnect ==
    /\ ~tw_connected
    /\ tw_connected' = TRUE
    /\ TwCommit(join_channel([TwState EXCEPT !.count = 0, !.chans = {},
                                             !.tlm = NoTime,
                                             !.sent = FALSE,
                                             !.parted = {},
                                             !.irc = {}],
                             bot_channel, now).T)
    /\ tv_check' = NoCheck
    /\ UNCHANGED <<now, dcss_logged_in, wtOwnVars, chatVars, dcssVars,
                   callVars, dbVars>>

\* the IRC connection is lost
TwDisconnect ==
    /\ tw_connected
    /\ tw_connected' = FALSE
    /\ tw_joined' = {}
    /\ tv_log' = <<>>
    /\ tv_check' = NoCheck
    /\ UNCHANGED <<message_count, time_last_message, sent_normal_message,
                   channels, tw_watch_queue, last_out, tw_parted>>
    /\ UNCHANGED <<now, dcss_logged_in, wtOwnVars, chatVars, dcssVars,
                   callVars, dbVars>>

\* one pass of the loop of TwitchManager.start up to the reading of chat;
\* irc_fail: the connection was lost after is_connected() was tested
TwTick(pref, irc_fail) ==
    /\ tw_connected
    /\ LET T0 == [TwState EXCEPT !.irc_fail = irc_fail]
           T1 == IF timeout_finished(T0, now)
                 THEN [T0 EXCEPT !.count = 0, !.tlm = NoTime,
                                 !.sent = FALSE]
                 ELSE T0
           T2 == update_queue(T1, pref, now)
       IN  /\ tv_check' = [count |-> T0.count,
                           elapsed |-> /\ last_out # NoTime
                                       /\ now - last_out > message_timeout,
                           cleared |-> T1.count = 0 /\ ~T1.sent,
                           evicted |-> T2.evicted,
                           admitted |-> T2.admitted]
           /\ TwCommit(T2)
    /\ UNCHANGED tw_connected
    /\ UNCHANGED <<now, dcss_logged_in, wtOwnVars, chatVars, dcssVars,
                   callVars, dbVars>>

\* beem_join_command read from the chat of channel `source`
TwJoinCommand(source, target_user, fail) ==
    /\ tw_connected
    /\ tw_get_channel(TwState, source) # NoChannel
    /\ LET T == TwState
           src == tw_get_channel(T, source)
           T1 == IF \/ tw_get_channel(T, target_user) # NoChannel
                    \/ tw_get_queue_entry(T.wq, target_user) # 0
                 THEN T
                 ELSE [T EXCEPT !.wq = tw_add_queue(@, target_user),
                                !.parted = @ \ {target_user}]
       IN  TwCommit(send_channel(T1, src, fail, now))
    /\ tv_check' = NoCheck
    /\ UNCHANGED tw_connected
    /\ UNCHANGED <<now, dcss_logged_in, wtOwnVars, chatVars, dcssVars,
                   callVars, dbVars>>

\* beem_part_command read from the chat of channel `source`; when
\* stop_watching raises, run_bot_command logs the exception
TwPartCommand(source, target_user, irc_fail, fail) ==
    /\ tw_connected
    /\ tw_get_channel(TwState, source) # NoChannel
    /\ LET T == [TwState EXCEPT !.irc_fail = irc_fail]
           src == tw_get_channel(T, source)
           chan == tw_get_channel(T, target_user)
           s == stop_watching([T EXCEPT !.parted = @ \cup {target_user}],
                              chan, now)
           e == tw_get_queue_entry(s.T.wq, target_user)
           T1 == IF e # 0
                 THEN [s.T EXCEPT !.wq[e].parted = TRUE]
                 ELSE s.T
       IN  IF chan = NoChannel
           THEN TwCommit(send_channel(T, src, fail, now))
           ELSE IF ~s.ok
           THEN TwCommit(s.T)
           ELSE TwCommit(send_channel(T1, src, fail, now))
    /\ tv_check' = NoCheck
    /\ UNCHANGED tw_connected
    /\ UNCHANGED <<now, dcss_logged_in, wtOwnVars, chatVars, dcssVars,
                   callVars, dbVars>>

\* TwitchChannel.send_chat: a reply or a query result for channel `source`
TwSendChat(source, fail) ==
    /\ tw_connected
    /\ tw_get_channel(TwState, source) # NoChannel
    /\ TwCommit(send_channel(TwState, tw_get_channel(TwState, source),
                             fail, now))
    /\ tv_check' = NoCheck
    /\ UNCHANGED tw_connected
    /\ UNCHANGED <<now, dcss_logged_in, wtOwnVars, chatVars, dcssVars,
                   callVars, dbVars>>

InitTV ==
    /\ tw_connected = FALSE
    /\ message_count = 0
    /\ time_last_message = NoTime
    /\ sent_normal_message = FALSE
    /\ channels = {}
    /\ tw_watch_queue = <<>>
    /\ tv_log = <<>>
    /\ tv_check = NoCheck
    /\ last_out = NoTime
    /\ tw_parted = {}
    /\ tw_joined = {}

(***************************************************************************)
(* The command rate limit of one chat source (chat.py, ChatWatcher).       *)
(***************************************************************************)
login_user == "beem"
admins == {"admin"}
Senders == {"admin", "eve", "mallory", login_user}
\* what parse_bot_command and is_dcss_message make of a chat message:
\* no command at all, a bot command, a bot command whose parsing raises
\* BotCommandException, a knowledge-bot query
MessageKinds == {"chatter", "command", "bad_command", "query"}
command_limit == 2
command_period == 4
\* seconds the environment lets pass between two observations of the clock
ChatTimeStep == 2

is_allowed_user(user) == user # login_user

user_is_admin(user) == user \in admins

\* at_command_limit without the expiry of old timestamps
expire_message_times_never(times, command_time) == times

\* at_command_limit: message_times after the expiry, and the verdict
expire_message_times(times, command_time) ==
    LET Fresh(t) == ~(command_time - t >= command_period)
    IN  SelectSeq(times, Fresh)

\* at_command_limit with > for >=
at_command_limit_late(times, command_time) ==
    Len(expire_message_times(times, command_time)) > command_limit

at_command_limit(times, command_time) ==
    Len(expire_message_times(times, command_time)) >= command_limit

NoRead == [sender |-> None, kind |-> None, window |-> 0, replied |-> FALSE,
           ran |-> FALSE, recorded |-> FALSE]

\* history: the command attempts recorded within command_period before t
InWindow(t) ==
    Cardinality({k \in 1..Len(attempts) : t - attempts[k] < command_period})

read_chat(sender, kind) ==
    /\ LET admin == user_is_admin(sender)
           command_time == now
           times == expire_message_times(message_times, command_time)
           at_limit == at_command_limit(message_times, command_time)
           invalid_usage == kind = "bad_command"
           Read(replied, ran, recorded) ==
               [sender |-> sender, kind |-> kind, window |-> InWindow(now),
                replied |-> replied, ran |-> ran, recorded |-> recorded]
       IN  IF sender = login_user \/ ~is_allowed_user(sender)
           THEN /\ chat_last' = Read(FALSE, FALSE, FALSE)
                /\ UNCHANGED <<message_times, attempts, executed>>
           ELSE IF kind = "chatter"
           THEN /\ chat_last' = Read(FALSE, FALSE, FALSE)
                /\ message_times' = times
                /\ UNCHANGED <<attempts, executed>>
           ELSE IF ~admin /\ at_limit
           THEN /\ chat_last' = Read(FALSE, FALSE, FALSE)
                /\ message_times' = times
                /\ UNCHANGED <<attempts, executed>>
           ELSE /\ chat_last' = Read(invalid_usage, ~invalid_usage, ~admin)
                /\ message_times' = IF ~admin
                                    THEN Append(times, command_time)
                                    ELSE times
                /\ attempts' = IF ~admin
                               THEN Append(attempts, command_time)
                               ELSE attempts
                /\ executed' = IF ~admin /\ ~invalid_usage
                               THEN Append(executed, command_time)
                               ELSE executed
    /\ UNCHANGED <<now, wtVars, tvVars, dcssVars,
                   callVars, dbVars>>

InitChat ==
    /\ message_times = <<>>
    /\ attempts = <<>>
    /\ executed = <<>>
    /\ chat_last = NoRead

(***************************************************************************)
(* The knowledge-bot query router of dcss.py: per bot the pending queries, *)
(* the queue of query ids of a bot that echoes no prefix, and the query    *)
(* answered last.                                                          *)
(***************************************************************************)
\* dcss.py: _MAX_REQUEST_TIME
MAX_REQUEST_TIME == 100
\* len(_QUERY_PREFIX_CHARS), 62 in dcss.py
NumIds == 2
\* queries submitted or relayed to the bots in a run
MaxQueries == 4
\* lines a bot sends in answer to one query
MaxLines == 2
\* seconds the environment lets pass between two observations of the clock
DcssTimeStep == 50
DcssMaxTime == 101

\* self.bots in the order of the configuration, and the services of each
BotOrder == <<"Sequell", "Cheibriados">>
BotNicks == {BotOrder[k] : k \in 1..Len(BotOrder)}
BotServices(bot) ==
    IF bot = "Sequell" THEN <<"sequell">> ELSE <<"monster", "git">>

\* Chat messages and reply texts, by the service patterns they match.
QueryMessages == {"!lg", "@??orc", "%git"}
ReplyTexts == {"text", "@??orc"}
Matches(service, message) ==
    \/ service = "sequell" /\ message = "!lg"
    \/ service = "monster" /\ message = "@??orc"
    \/ service = "git" /\ message = "%git"

SourceIdents == {"webtiles:alice", "twitch:carol"}
\* who asks on which chat source
Submitters == {<<"webtiles:alice", "eve">>, <<"twitch:carol", "bob">>}

QueryIds == 0..(NumIds - 1)

NoQuery == [id |-> -1, requester |-> None, source_ident |-> None,
            time |-> NoTime, type |-> None]

\* get_message_service: the first service of the bot with a matching
\* pattern, None when there is none
get_message_service(bot, message) ==
    LET s == BotServices(bot)
    IN  IF \E k \in 1..Len(s) : Matches(s[k], message)
        THEN s[CHOOSE k \in 1..Len(s) :
                   /\ Matches(s[k], message)
                   /\ \A j \in 1..(k - 1) : ~Matches(s[j], message)]
        ELSE None

\* 'sequell' in self.services: the bot echoes the prefix of a query
EchoesPrefix(bot) ==
    \E k \in 1..Len(BotServices(bot)) : BotServices(bot)[k] = "sequell"

\* The state of one bot: B.queries, B.queue, B.last.
BotState(bot) == [queries |-> queries[bot], queue |-> queue[bot],
                  last |-> last_answered_query[bot]]

HasId(qs, i) == \E q \in qs : q.id = i
QueryOf(qs, i) == CHOOSE q \in qs : q.id = i

\* list.remove: the first occurrence
RemoveFirst(seq, x) ==
    IF \E k \in 1..Len(seq) : seq[k] = x
    THEN RemoveAt(seq, CHOOSE k \in 1..Len(seq) :
                           /\ seq[k] = x
                           /\ \A j \in 1..(k - 1) : seq[j] # x)
    ELSE seq

RECURSIVE expire_ids_from(_, _, _)
expire_ids_from(B, i, current_time) ==
    IF i >= NumIds
    THEN B
    ELSE IF ~HasId(B.queries, i)
    THEN expire_ids_from([B EXCEPT !.queue = RemoveFirst(@, i)], i + 1,
                         current_time)
    ELSE IF current_time - QueryOf(B.queries, i).time >= MAX_REQUEST_TIME
    THEN expire_ids_from(
             [B EXCEPT !.queries = @ \ {QueryOf(B.queries, i)},
                       !.queue = RemoveFirst(@, i)],
             i + 1, current_time)
    ELSE expire_ids_from(B, i + 1, current_time)

\* expire_query_entries with > for >=
expire_query_entries_late(B, current_time) ==
    [B EXCEPT !.queries =
                  {q \in @ : ~(current_time - q.time > MAX_REQUEST_TIME)}]

expire_query_entries(B, current_time) ==
    LET last_query_age == current_time - B.last.time
        B1 == IF /\ B.last # NoQuery
                 /\ last_query_age # 0
                 /\ last_query_age >= MAX_REQUEST_TIME
              THEN [B EXCEPT !.last = NoQuery]
              ELSE B
    IN  expire_ids_from(B1, 0, current_time)

\* the ids that hold no pending query
FreeIds_unreserved(B) == {i \in QueryIds : ~HasId(B.queries, i)}

\* the ids make_query_entry may use
FreeIds(B) ==
    {i \in QueryIds : /\ ~HasId(B.queries, i)
                      /\ (B.last = NoQuery \/ i # B.last.id)}

\* ok is false when the code raises "too many queries in queue"
make_query_entry(B, bot, source_ident, username, message, current_time) ==
    LET B1 == expire_query_entries(B, current_time)
        free == FreeIds(B1)
        query_id == CHOOSE i \in free : \A j \in free : i <= j
        query == [id |-> query_id, requester |-> username,
                  source_ident |-> source_ident, time |-> current_time,
                  type |-> get_message_service(bot, message)]
    IN  IF free = {}
        THEN [B |-> B1, ok |-> FALSE, query |-> NoQuery]
        ELSE [B |-> [B1 EXCEPT !.queries =
                         {q \in @ : q.id # query_id} \cup {query}],
              ok |-> TRUE, query |-> query]

\* send_query_message; fail: manager.send raises.  sent is true when the
\* bot receives the query.
send_query_message(B, bot, source_ident, requester, message, fail, t) ==
    LET m == make_query_entry(B, bot, source_ident, requester, message, t)
        B1 == IF EchoesPrefix(bot)
              THEN m.B
              ELSE [m.B EXCEPT !.queue = Append(@, m.query.id)]
    IN  IF ~m.ok
        THEN [B |-> m.B, ok |-> FALSE, sent |-> FALSE, query |-> NoQuery]
        ELSE [B |-> B1, ok |-> TRUE, sent |-> ~fail, query |-> m.query]

\* get_message_query_id that reads the head of the queue and leaves it
get_message_query_id_peek(B, bot, prefix) ==
    IF EchoesPrefix(bot)
    THEN [id |-> prefix, queue |-> B.queue]
    ELSE IF Len(B.queue) = 0
    THEN [id |-> -1, queue |-> B.queue]
    ELSE [id |-> Head(B.queue), queue |-> B.queue]

\* get_message_query_id: the id (-1 for None) and the queue left
get_message_query_id(B, bot, prefix) ==
    IF EchoesPrefix(bot)
    THEN [id |-> prefix, queue |-> B.queue]
    ELSE IF Len(B.queue) = 0
    THEN [id |-> -1, queue |-> B.queue]
    ELSE [id |-> Head(B.queue), queue |-> Tail(B.queue)]

\* get_message_query; raised is true when the code raises NameError on the
\* name nick, which get_message_query does not define
get_message_query(B, bot, prefix, t) ==
    LET B1 == expire_query_entries(B, t)
        g == get_message_query_id(B1, bot, prefix)
        B2 == [B1 EXCEPT !.queue = g.queue]
    IN  IF g.id = -1
        THEN [B |-> B2, query |-> B2.last, raised |-> FALSE]
        ELSE IF ~HasId(B2.queries, g.id)
        THEN IF B2.last # NoQuery /\ g.id = B2.last.id
             THEN [B |-> B2, query |-> B2.last, raised |-> FALSE]
             ELSE [B |-> B2, query |-> NoQuery, raised |-> TRUE]
        ELSE LET q == QueryOf(B2.queries, g.id)
             IN  [B |-> [B2 EXCEPT !.last = q, !.queries = @ \ {q}],
                  query |-> q, raised |-> FALSE]

\* read_irc relaying to the first other bot, whatever the message
RelayBot_any(nick, message) ==
    BotOrder[CHOOSE k \in 1..Len(BotOrder) :
        /\ BotOrder[k] # nick
        /\ \A j \in 1..(k - 1) : BotOrder[j] = nick]

\* read_irc: the first other bot with a service for the message
RelayBot(nick, message) ==
    IF \E k \in 1..Len(BotOrder) :
           /\ BotOrder[k] # nick
           /\ get_message_service(BotOrder[k], message) # None
    THEN BotOrder[CHOOSE k \in 1..Len(BotOrder) :
             /\ BotOrder[k] # nick
             /\ get_message_service(BotOrder[k], message) # None
             /\ \A j \in 1..(k - 1) :
                    \/ BotOrder[j] = nick
                    \/ get_message_service(BotOrder[j], message) = None]
    ELSE None

\* read_message: the first bot with a service for the message
QueryBot(message) ==
    BotOrder[CHOOSE k \in 1..Len(BotOrder) :
        /\ get_message_service(BotOrder[k], message) # None
        /\ \A j \in 1..(k - 1) :
               get_message_service(BotOrder[j], message) = None]

NoEvent ==
    [op |-> "none", bot |-> None, ok |-> FALSE, id |-> -1, held |-> {},
     busy |-> {}, reserved |-> -1, origin_source |-> None, origin_time |-> NoTime,
     source |-> None, requester |-> None, type |-> None, to |-> None,
     kind |-> None, relay_bot |-> None, relay_free |-> FALSE,
     raised |-> FALSE]

\* history: the ids of the bot that hold a query, those that hold a query
\* younger than _MAX_REQUEST_TIME, and the id of such a query answered last
HeldIds(bot) == {q.id : q \in queries[bot]}

YoungIds(bot, t) ==
    {q.id : q \in {p \in queries[bot] : t - p.time < MAX_REQUEST_TIME}}

YoungLastId(bot, t) ==
    IF /\ last_answered_query[bot] # NoQuery
       /\ t - last_answered_query[bot].time < MAX_REQUEST_TIME
    THEN last_answered_query[bot].id
    ELSE -1

\* what a bot remembers of a query it received
Received(query, message) ==
    [id |-> query.id, requester |-> query.requester,
     source_ident |-> query.source_ident, time |-> query.time,
     type |-> query.type, message |-> message, lines |-> 0]

SetBot(bot, B) ==
    /\ queries' = [queries EXCEPT ![bot] = B.queries]
    /\ queue' = [queue EXCEPT ![bot] = B.queue]
    /\ last_answered_query' = [last_answered_query EXCEPT ![bot] = B.last]


(***************************************************************************)
(* The task of DCSSManager.start: the loop that connects to IRC, reads the *)
(* connection and pauses.  The task waits in asyncio.sleep, either in the  *)
(* pause at the end of a pass of the loop or in the wait before another    *)
(* connection attempt.  Its clock counts tenths of a second.               *)
(***************************************************************************)
\* dcss.py: _RECONNECT_TIMEOUT, in seconds
RECONNECT_TIMEOUT == 5
TicksPerSecond == 10
\* asyncio.sleep(0.1) at the end of a pass
LoopPause == 1
MaxManagerClock == 56

\* the connect loop without its wait
reconnect_wait_none(tried_connect) == 0

\* the wait before a connection attempt: `if tried_connect:
\* yield from asyncio.sleep(_RECONNECT_TIMEOUT)`
reconnect_wait(tried_connect) ==
    IF tried_connect THEN RECONNECT_TIMEOUT * TicksPerSecond ELSE 0

\* history fields: error_time is the time of the last read error,
\* attempt_time that of the last connection attempt, prev_fail that of the
\* failed attempt before it in the same connect loop, attempted_since tells
\* whether a connection was attempted after the last read error
InitManager ==
    [pc |-> "pause", clock |-> 1, wake |-> 1, connected |-> FALSE,
     error_time |-> NoTime, attempt_time |-> NoTime, prev_fail |-> NoTime,
     attempted_since |-> FALSE]
\* DCSSManager.connect: every bot's init_query_data
DcssConnect ==
    /\ dcss_alive
    /\ ~dcss_logged_in
    /\ dcss_logged_in' = TRUE
    /\ bots_ready' = TRUE
    /\ queries' = [b \in BotNicks |-> {}]
    /\ queue' = [b \in BotNicks |-> <<>>]
    /\ last_answered_query' = [b \in BotNicks |-> NoQuery]
    /\ ev' = NoEvent
    /\ UNCHANGED <<now, dcss_alive, live_sources, pending, nq>>
    /\ UNCHANGED <<wtOwnVars, tvVars, chatVars,
                   callVars, dbVars, manager>>

\* read_message: a chat source submits a query for requester `username`;
\* fail: manager.send raises
SubmitQuery(source_ident, username, message, fail) ==
    /\ bots_ready
    /\ nq < MaxQueries
    /\ source_ident \in live_sources
    /\ \E r \in {send_query_message(BotState(QueryBot(message)),
                                      QueryBot(message), source_ident,
                                      username, message, fail, now)} :
       LET bot == QueryBot(message)
       IN  /\ SetBot(bot, r.B)
           /\ pending' = IF r.sent
                         THEN [pending EXCEPT ![bot] =
                                   Append(@, Received(r.query, message))]
                         ELSE pending
           /\ ev' = [NoEvent EXCEPT !.op = "submit", !.bot = bot,
                                    !.ok = r.ok, !.id = r.query.id,
                                    !.source = source_ident,
                                    !.requester = username,
                                    !.held = HeldIds(bot),
                                    !.busy = YoungIds(bot, now),
                                    !.reserved = YoungLastId(bot, now)]
    /\ nq' = nq + 1
    /\ UNCHANGED <<now, dcss_logged_in, bots_ready, dcss_alive,
                   live_sources>>
    /\ UNCHANGED <<wtOwnVars, tvVars, chatVars,
                   callVars, dbVars, manager>>

\* The bot sends a line of its answer to the k-th query it holds, `more`
\* lines to follow, and read_irc handles the line; fail: manager.send
\* raises when the line is relayed to another bot.  A bot that echoes the
\* prefix puts the prefix of the query before `text`; a bot that does not
\* answers its queries in the order received.
ReadIrc(nick, k, more, text, fail) ==
    /\ dcss_alive
    /\ dcss_logged_in
    /\ k \in 1..Len(pending[nick])
    /\ EchoesPrefix(nick) \/ (k = 1 /\ text = "text")
    /\ text # "text" => nq < MaxQueries
    /\ \E g \in {get_message_query(BotState(nick), nick,
                                     pending[nick][k].id, now)} :
       LET p == pending[nick][k]
           left == IF more /\ p.lines + 1 < MaxLines
                   THEN [pending EXCEPT ![nick][k].lines = @ + 1]
                   ELSE [pending EXCEPT ![nick] = RemoveAt(@, k)]
           query == g.query
           source_live == query.source_ident \in live_sources
           bot == RelayBot(nick, text)
           relays == /\ query # NoQuery
                     /\ source_live
                     /\ query.type = "sequell"
                     /\ bot # None
           delivers == query # NoQuery /\ source_live /\ ~relays
           E == [NoEvent EXCEPT !.op = "reply", !.bot = nick,
                                !.origin_source = p.source_ident,
                                !.origin_time = p.time,
                                !.source = query.source_ident,
                                !.requester = query.requester,
                                !.type = query.type,
                                !.held = HeldIds(nick),
                                !.relay_bot =
                                    IF query # NoQuery
                                       /\ query.type = "sequell"
                                    THEN bot
                                    ELSE None,
                                !.relay_free =
                                    /\ bot # None
                                    /\ \E i \in QueryIds :
                                           /\ i \notin YoungIds(bot, now)
                                           /\ i # YoungLastId(bot, now),
                                !.raised = g.raised]
       IN  /\ dcss_alive' = ~g.raised
           /\ fail => relays
           /\ IF relays
              THEN \E r \in {send_query_message(BotState(bot), bot,
                                  query.source_ident, query.requester, text,
                                  fail, now)} :
                   /\ queries' = [queries EXCEPT ![nick] = g.B.queries,
                                                 ![bot] = r.B.queries]
                   /\ queue' = [queue EXCEPT ![nick] = g.B.queue,
                                             ![bot] = r.B.queue]
                   /\ last_answered_query' =
                          [last_answered_query EXCEPT ![nick] = g.B.last,
                                                      ![bot] = r.B.last]
                   /\ pending' = IF r.sent
                                 THEN [left EXCEPT ![bot] =
                                           Append(@, Received(r.query, text))]
                                 ELSE left
                   /\ nq' = nq + 1
                   /\ ev' = [E EXCEPT !.ok = r.ok, !.id = r.query.id]
              ELSE /\ SetBot(nick, g.B)
                   /\ pending' = left
                   /\ nq' = nq
                   /\ ev' = [E EXCEPT !.to = IF delivers
                                             THEN query.source_ident
                                             ELSE None,
                                      !.kind = IF ~delivers THEN None
                                               ELSE IF query.type = "sequell"
                                               THEN "normal"
                                               ELSE query.type]
    /\ UNCHANGED <<now, dcss_logged_in, bots_ready, live_sources>>
    /\ UNCHANGED <<wtOwnVars, tvVars, chatVars,
                   callVars, dbVars, manager>>

\* a chat source goes away: get_source_by_ident finds nothing for it
SourceGone(source_ident) ==
    /\ source_ident \in live_sources
    /\ live_sources' = live_sources \ {source_ident}
    /\ ev' = NoEvent
    /\ UNCHANGED <<now, dcss_logged_in, bots_ready, dcss_alive, queries,
                   queue, last_answered_query, pending, nq>>
    /\ UNCHANGED <<wtOwnVars, tvVars, chatVars,
                   callVars, dbVars, manager>>

DcssAdvanceTime ==
    /\ now + DcssTimeStep <= DcssMaxTime
    /\ now' = now + DcssTimeStep
    /\ ev' = NoEvent
    /\ UNCHANGED <<dcss_logged_in, bots_ready, dcss_alive, live_sources,
                   queries, queue, last_answered_query, pending, nq>>
    /\ UNCHANGED <<wtOwnVars, tvVars, chatVars,
                   callVars, dbVars, manager>>

InitDcss ==
    /\ bots_ready = FALSE
    /\ dcss_alive = TRUE
    /\ live_sources = SourceIdents
    /\ queries = [b \in BotNicks |-> {}]
    /\ queue = [b \in BotNicks |-> <<>>]
    /\ last_answered_query = [b \in BotNicks |-> NoQuery]
    /\ pending = [b \in BotNicks |-> <<>>]
    /\ nq = 0
    /\ ev = NoEvent
    /\ manager = InitManager


(***************************************************************************)
(* BotDB of botdb.py: the sqlite3 tables and their in-memory copy.  Every  *)
(* table has the text primary key username and the integer field           *)
(* subscription.  A name is the sequence of its characters.                *)
(***************************************************************************)
MaxRows == 2
DbTables == {"webtiles_users", "twitch_users"}
SubscriptionDefault == 0
SubscriptionValues == {0, 1}

\* user names that differ in letter case only, and others
Names == {<<"e">>, <<"E">>, <<"e", "v">>, <<"E", "v">>, <<"E", "V">>,
          <<"v">>}

\* str.lower()
LowerChar(ch) ==
    CASE ch = "E" -> "e"
      [] ch = "V" -> "v"
      [] OTHER -> ch

lower(name) == [i \in DOMAIN name |-> LowerChar(name[i])]

\* the rows add_row is called with: with or without the optional field,
\* and without the key
InputRows ==
    {[username |-> n] : n \in Names}
    \cup {[username |-> n, subscription |-> s] :
              n \in Names, s \in SubscriptionValues}
    \cup {[subscription |-> s] : s \in SubscriptionValues}

NoRow == [username |-> <<>>, subscription |-> SubscriptionDefault]

\* get_row with the keys taken as they are given
get_row_exact(data, table, keys) ==
    IF \E e \in data[table] : e.key = keys
    THEN (CHOOSE e \in data[table] : e.key = keys).entry
    ELSE NoRow

get_row(data, table, keys) ==
    LET row_key == [i \in DOMAIN keys |-> lower(keys[i])]
    IN  IF \E e \in data[table] : e.key = row_key
        THEN (CHOOSE e \in data[table] : e.key = row_key).entry
        ELSE NoRow

\* the dictionary load_db builds from the rows of a table
LoadedTable(rows) ==
    {[key |-> <<lower(r.username)>>, entry |-> r] : r \in rows}

\* TEXT COLLATE NOCASE PRIMARY KEY: the INSERT is refused when the table
\* holds the name in another case
InsertRefused(rows, name) ==
    \E r \in rows : lower(r.username) = lower(name)

\* add_row with the in-memory copy updated before the INSERT is executed
add_row_mirror_first(data, store, table, row, fail) ==
    LET row_key == <<lower(row.username)>>
        row_entry ==
            [username |-> row.username,
             subscription |-> IF "subscription" \in DOMAIN row
                              THEN row.subscription
                              ELSE SubscriptionDefault]
        Fails == [raised |-> TRUE, entry |-> NoRow, data |-> data,
                  store |-> store]
        mirrored == [data EXCEPT ![table] =
                         @ \cup {[key |-> row_key, entry |-> row_entry]}]
    IN  IF "username" \notin DOMAIN row
        THEN Fails
        ELSE IF \E e \in data[table] : e.key = row_key
        THEN Fails
        ELSE IF fail \/ InsertRefused(store[table], row.username)
        THEN [Fails EXCEPT !.data = mirrored]
        ELSE [raised |-> FALSE, entry |-> row_entry,
              data |-> mirrored,
              store |-> [store EXCEPT ![table] = @ \cup {row_entry}]]

\* add_row: the row entry it stores and returns, or the exception
add_row(data, store, table, row, fail) ==
    LET row_key == <<lower(row.username)>>
        row_entry ==
            [username |-> row.username,
             subscription |-> IF "subscription" \in DOMAIN row
                              THEN row.subscription
                              ELSE SubscriptionDefault]
        Fails == [raised |-> TRUE, entry |-> NoRow, data |-> data,
                  store |-> store]
    IN  IF "username" \notin DOMAIN row
        THEN Fails
        ELSE IF \E e \in data[table] : e.key = row_key
        THEN Fails
        ELSE IF fail \/ InsertRefused(store[table], row.username)
        THEN Fails
        ELSE [raised |-> FALSE, entry |-> row_entry,
              data |-> [data EXCEPT ![table] =
                            @ \cup {[key |-> row_key, entry |-> row_entry]}],
              store |-> [store EXCEPT ![table] = @ \cup {row_entry}]]

StoredRows == Cardinality(UNION {db_store[t] : t \in DbTables})

\* BotDB.load_db
LoadDb ==
    /\ db_loaded' = TRUE
    /\ db_data' = [t \in DbTables |-> LoadedTable(db_store[t])]
    /\ call_in' = [op |-> "load_db"]
    /\ call_out' = [raised |-> FALSE]
    /\ UNCHANGED db_store
    /\ UNCHANGED <<now, wtVars, tvVars, chatVars, dcssVars>>

\* BotDB.add_row; fail: sqlite3 raises
AddRow(table, row, fail) ==
    /\ db_loaded
    /\ StoredRows < MaxRows
    /\ LET r == add_row(db_data, db_store, table, row, fail)
       IN  /\ db_data' = r.data
           /\ db_store' = r.store
           /\ call_in' = [op |-> "add_row", table |-> table, row |-> row]
           /\ call_out' = [raised |-> r.raised, entry |-> r.entry]
    /\ UNCHANGED db_loaded
    /\ UNCHANGED <<now, wtVars, tvVars, chatVars, dcssVars>>

\* BotDB.get_row
GetRow(table, name) ==
    /\ db_loaded
    /\ call_in' = [op |-> "get_row", table |-> table, keys |-> <<name>>]
    /\ call_out' = [raised |-> FALSE,
                    entry |-> get_row(db_data, table, <<name>>)]
    /\ UNCHANGED dbVars
    /\ UNCHANGED <<now, wtVars, tvVars, chatVars, dcssVars>>

\* the program is started again: BotDB.__init__
DbRestart ==
    /\ db_loaded
    /\ db_loaded' = FALSE
    /\ db_data' = [t \in DbTables |-> {}]
    /\ call_in' = [op |-> "restart"]
    /\ call_out' = [raised |-> FALSE]
    /\ UNCHANGED db_store
    /\ UNCHANGED <<now, wtVars, tvVars, chatVars, dcssVars>>

InitDb ==
    /\ db_loaded = FALSE
    /\ db_data = [t \in DbTables |-> {}]
    /\ db_store = [t \in DbTables |-> {}]

NextDb ==
    \/ LoadDb
    \/ \E t \in DbTables, row \in InputRows, f \in BOOLEAN : AddRow(t, row, f)
    \/ \E t \in DbTables, n \in Names : GetRow(t, n)
    \/ DbRestart
(***************************************************************************)
(* The specifications: one per component, the other components at rest.    *)
(***************************************************************************)
Init ==
    /\ now = StartTime
    /\ WtAtRest
    /\ InitTV
    /\ InitChat
    /\ InitDcss
    /\ call_in = NoCall
    /\ call_out = NoCall
    /\ InitDb

InitScheduler ==
    /\ now = StartTime
    /\ InitWT
    /\ InitTV
    /\ InitChat
    /\ InitDcss
    /\ call_in = NoCall
    /\ call_out = NoCall
    /\ InitDb


NextWT ==
    \/ TickStart
    \/ QueueStart
    \/ QueueResume
    \/ TickEnd
    \/ \E c \in ConnIds : SessionStop(c)
    \/ \E c \in ConnIds : WatchingStarted(c)
    \/ \E c \in ConnIds, m \in GameMessages, l \in LibOutcomes :
          GameMessage(c, m, l)
    \/ \E u \in Users, g \in GameIds, n \in 0..MaxSpectators,
          i \in {0, max_game_idle} : LobbyEntry(u, g, n, i)
    \/ \E k \in 1..Len(lobby_entries) : LobbyRemove(k)
    \/ LobbyClear
    \/ LobbyComplete
    \/ \E u \in Users, v \in {-1, 1} : SetSubscription(u, v)
    \/ \E v \in BOOLEAN : DcssReady(v)
    \/ WtAdvanceTime

SpecWT == InitScheduler /\ [][NextWT]_vars

\* the knowledge-bot connection comes up or goes down under the Twitch
\* manager
TwRouter(value) ==
    /\ dcss_logged_in # value
    /\ dcss_logged_in' = value
    /\ tv_log' = <<>>
    /\ tv_check' = NoCheck
    /\ UNCHANGED <<now, tw_connected, message_count, time_last_message,
                   sent_normal_message, channels, tw_watch_queue, last_out,
                   tw_parted, tw_joined>>
    /\ UNCHANGED <<wtOwnVars, chatVars, dcssVars,
                   callVars, dbVars>>

TvAdvanceTime ==
    /\ now + TvTimeStep <= MaxTime
    /\ now' = now + TvTimeStep
    /\ tv_log' = <<>>
    /\ tv_check' = NoCheck
    /\ UNCHANGED <<dcss_logged_in, tw_connected, message_count,
                   time_last_message, sent_normal_message, channels,
                   tw_watch_queue, last_out, tw_parted, tw_joined>>
    /\ UNCHANGED <<wtOwnVars, chatVars, dcssVars,
                   callVars, dbVars>>

NextTV ==
    \/ TwConnect
    \/ TwDisconnect
    \/ \E pref \in TwUsers, pf \in BOOLEAN : TwTick(pref, pf)
    \/ \E s \in TwUsers \cup {BotNick}, u \in TwUsers, f \in BOOLEAN :
           TwJoinCommand(s, u, f)
    \/ \E s \in TwUsers \cup {BotNick}, u \in TwUsers, pf, f \in BOOLEAN :
           TwPartCommand(s, u, pf, f)
    \/ \E s \in TwUsers \cup {BotNick}, f \in BOOLEAN : TwSendChat(s, f)
    \/ \E v \in BOOLEAN : TwRouter(v)
    \/ TvAdvanceTime

SpecTV == Init /\ [][NextTV]_vars

ChatAdvanceTime ==
    /\ now + ChatTimeStep <= MaxTime
    /\ now' = now + ChatTimeStep
    /\ chat_last' = NoRead
    /\ UNCHANGED <<message_times, attempts, executed>>
    /\ UNCHANGED <<wtVars, tvVars, dcssVars,
                   callVars, dbVars>>

NextChat ==
    \/ \E s \in Senders, k \in MessageKinds : read_chat(s, k)
    \/ ChatAdvanceTime

SpecChat == Init /\ [][NextChat]_vars

\* The bot that echoes prefixes: chat sources submit queries for it and it
\* answers them in any order with plain text.
NextEcho ==
    \/ DcssConnect
    \/ \E s \in Submitters : SubmitQuery(s[1], s[2], "!lg", FALSE)
    \/ \E k \in 1..MaxQueries, more \in BOOLEAN :
           ReadIrc("Sequell", k, more, "text", FALSE)
    \/ \E s \in SourceIdents : SourceGone(s)
    \/ DcssAdvanceTime

SpecEcho == Init /\ [][NextEcho]_vars

\* The bot that echoes no prefix: chat sources submit queries for it, the
\* sending of a query may fail, and it answers in the order received.
NextFifo ==
    \/ DcssConnect
    \/ \E s \in Submitters, m \in {"@??orc", "%git"}, f \in BOOLEAN :
           SubmitQuery(s[1], s[2], m, f)
    \/ \E more \in BOOLEAN : ReadIrc("Cheibriados", 1, more, "text", FALSE)
    \/ \E s \in SourceIdents : SourceGone(s)
    \/ DcssAdvanceTime

SpecFifo == Init /\ [][NextFifo]_vars

\* Both bots: the answers of the primary bot may be queries for the other.
NextRelay ==
    \/ DcssConnect
    \/ \E s \in Submitters, m \in {"!lg", "@??orc"} :
           SubmitQuery(s[1], s[2], m, FALSE)
    \/ \E b \in BotNicks, k \in 1..MaxQueries, more \in BOOLEAN,
          t \in ReplyTexts, f \in BOOLEAN : ReadIrc(b, k, more, t, f)
    \/ \E s \in SourceIdents : SourceGone(s)

SpecRelay == Init /\ [][NextRelay]_vars

\* The task wakes from its sleep and runs to its next sleep.  Waking from
\* the pause it is at the top of the outer loop with tried_connect False,
\* waking from the wait it is in the connect loop; in both cases it calls
\* connect() when it is not connected.  connect_ok: connect() returns
\* connected; read_ok: process_once does not raise.
ManagerWake(connect_ok, read_ok) ==
    /\ manager.clock >= manager.wake + reconnect_wait(FALSE)
    /\ manager.connected => connect_ok
    /\ LET m == manager
           connects == ~m.connected
           tried_connect == m.pc = "backoff"
           m1 == IF connects
                 THEN [m EXCEPT !.attempt_time = m.clock,
                                !.prev_fail = IF tried_connect
                                              THEN m.attempt_time
                                              ELSE NoTime,
                                !.attempted_since = TRUE,
                                !.connected = connect_ok]
                 ELSE m
       IN  manager' =
               IF ~m1.connected
               THEN [m1 EXCEPT !.pc = "backoff",
                               !.wake = m.clock + reconnect_wait(TRUE)]
               ELSE IF read_ok
               THEN [m1 EXCEPT !.pc = "pause",
                               !.wake = m.clock + LoopPause]
               ELSE [m1 EXCEPT !.pc = "pause",
                               !.wake = m.clock + LoopPause,
                               !.connected = FALSE,
                               !.error_time = m.clock,
                               !.attempted_since = FALSE]
    /\ UNCHANGED <<now, dcss_logged_in, bots_ready, dcss_alive, live_sources,
                   queries, queue, last_answered_query, pending, nq, ev>>
    /\ UNCHANGED <<wtOwnVars, tvVars, chatVars, callVars, dbVars>>

\* a tenth of a second passes
ManagerTick ==
    /\ manager.clock < MaxManagerClock
    /\ manager' = [manager EXCEPT !.clock = @ + 1]
    /\ UNCHANGED <<now, dcss_logged_in, bots_ready, dcss_alive, live_sources,
                   queries, queue, last_answered_query, pending, nq, ev>>
    /\ UNCHANGED <<wtOwnVars, tvVars, chatVars, callVars, dbVars>>

NextManager ==
    \/ \E c, r \in BOOLEAN : ManagerWake(c, r)
    \/ ManagerTick

SpecManager == Init /\ [][NextManager]_vars

(***************************************************************************)
(* process_lobby called on a lobby of any content and order.               *)
(***************************************************************************)
\* spectator counts of the lobby entries process_lobby is called on
LobbyMaxSpectators == 2
\* entries of the lobby process_lobby is called on
LobbyMaxEntries == 3

LobbyKeys == (Users \X GameIds) \cup ({"bob"} \X OldGameIds)

LobbyEntriesOf(key) ==
    {[username |-> key[1], game_id |-> key[2], spectator_count |-> n,
      idle_time |-> i, time_last_update |-> StartTime] :
        n \in 0..LobbyMaxSpectators, i \in {0, max_game_idle}}

\* the lobbies of at most LobbyMaxEntries entries, one entry per game
RECURSIVE Lobbies(_, _)
Lobbies(keys, n) ==
    IF n = 0 \/ keys = {}
    THEN {<<>>}
    ELSE {<<>>} \cup
         UNION {{<<e>> \o rest : e \in LobbyEntriesOf(k),
                                 rest \in Lobbies(keys \ {k}, n - 1)} :
                k \in keys}

\* the sessions the manager holds when process_lobby is called: none, an
\* autowatch session, a subscriber session, or both for different users
LobbySessions ==
    {[aw |-> a, sub |-> s] : a \in Users \cup {None}, s \in Users \cup {None}}

InitLobby ==
    /\ now = StartTime
    /\ InitTV
    /\ InitChat
    /\ InitDcss
    /\ call_in = NoCall
    /\ call_out = NoCall
    /\ InitDb
    /\ subscription \in [Users -> {-1, 0, 1}]
    /\ dcss_logged_in \in BOOLEAN
    /\ lobby_entries \in Lobbies(LobbyKeys, LobbyMaxEntries)
    /\ lobby_complete = TRUE
    /\ \E g \in GameIds, ss \in LobbySessions :
          /\ ss.aw = None \/ ss.aw # ss.sub
          /\ autowatch = IF ss.aw = None THEN NoConn ELSE 1
          /\ subscriber_conns = IF ss.sub = None THEN {} ELSE {2}
          /\ conns = [c \in ConnIds |->
                         IF c = 1 /\ ss.aw # None
                         THEN [NewGameConnection(ss.aw, g)
                                   EXCEPT !.watching = TRUE,
                                          !.logged_in = TRUE]
                         ELSE IF c = 2 /\ ss.sub # None
                         THEN [NewGameConnection(ss.sub, g)
                                   EXCEPT !.watching = TRUE,
                                          !.logged_in = TRUE]
                         ELSE NoConnection]
          /\ watch_queue = IF ss.sub = None
                           THEN <<>>
                           ELSE add_queue(<<>>, ss.sub, g)
    /\ pc = "sleep"
    /\ qsnap = <<>>
    /\ qi = 0
    /\ qdrop = FALSE
    /\ qlog = [u \in Users |-> NoLog]
    /\ events = 0
    /\ stop_pc = "none"
    /\ stop_todo = {}
    /\ lobby_task = TRUE

\* WebTilesManager.start calls process_lobby
LobbyScan ==
    /\ call_in = NoCall
    /\ LET pl == process_lobby(SchedState, now)
       IN  /\ watch_queue' = pl.wq
           /\ call_in' = [op |-> "process_lobby"]
           /\ call_out' = [game |-> pl.game]
    /\ UNCHANGED <<now, subscription, dcss_logged_in, lobby_entries,
                   lobby_complete, autowatch, subscriber_conns, conns,
                   schedLocals, events, stopVars>>
    /\ UNCHANGED <<tvVars, chatVars, dcssVars, dbVars>>

NextLobby == LobbyScan

SpecLobby == InitLobby /\ [][NextLobby]_vars

(***************************************************************************)
(* send_chat of a WebTiles game session and of a Twitch channel.  A chat   *)
(* message is the sequence of its characters.                              *)
(***************************************************************************)
MaxMessageLen == 3
ChatChars == {"!", ".", "/", "_", "l", "]"}

RECURSIVE SeqsUpTo(_, _)
SeqsUpTo(S, n) ==
    IF n = 0
    THEN {<<>>}
    ELSE LET shorter == SeqsUpTo(S, n - 1)
         IN  shorter \cup {Append(s, x) : s \in shorter, x \in S}

\* message[0] raises IndexError on the empty message
ChatMessages == SeqsUpTo(ChatChars, MaxMessageLen) \ {<<>>}

\* re.match(p, message) for the patterns "^!l", "^@\?\?" and "^%" that
\* Matches configures for the services
DcssPatterns == {<<"!", "l">>, <<"@", "?", "?">>, <<"%">>}

StartsWith(message, prefix) ==
    /\ Len(message) >= Len(prefix)
    /\ SubSeq(message, 1, Len(prefix)) = prefix

is_dcss_command(message) ==
    \E p \in DcssPatterns : StartsWith(message, p)

\* is_bot_command without the test of the first character for "!"
is_bot_command_dcss_only(message) ==
    \/ is_dcss_command(message)
    \/ message[1] = "_"

is_bot_command(message) ==
    \/ is_dcss_command(message)
    \/ message[1] = "!"
    \/ message[1] = "_"

\* beem_conf.webtiles["username"]
WtBotName == <<"b">>

\* the text GameConnection.send_chat hands to self.send
wt_send_chat_text(message, is_action) ==
    IF is_action
    THEN <<"*">> \o WtBotName \o <<"*", " ">> \o message
    ELSE IF is_bot_command(message)
    THEN <<"]">> \o message
    ELSE message

\* the message TwitchChannel.send_chat hands to send_channel
tw_send_chat_text(message, is_action) ==
    IF message[1] = "." \/ message[1] = "/"
    THEN <<" ">> \o message
    ELSE IF ~is_action /\ is_bot_command(message)
    THEN <<"]">> \o message
    ELSE message

NoPayload == <<>>

\* GameConnection.send_chat on session c, once in a behaviour; fail:
\* self.send raises
WtSendChatMessage(c, message, is_action, fail) ==
    /\ call_in = NoCall
    /\ conns[c].task = "running"
    /\ call_in' = [op |-> "send_chat", service |-> "webtiles",
                   message |-> message, is_action |-> is_action]
    /\ call_out' = [transmitted |-> ~fail,
                    payload |-> IF fail
                                THEN NoPayload
                                ELSE wt_send_chat_text(message, is_action)]
    /\ LET S == IF fail
                THEN stop_connection(SchedState, c, now)
                ELSE SchedState
       IN  /\ autowatch' = S.aw
           /\ subscriber_conns' = S.subs
           /\ conns' = S.cn
           /\ watch_queue' = S.wq
    /\ UNCHANGED <<now, subscription, dcss_logged_in, lobby_entries,
                   lobby_complete, schedLocals, events, stopVars>>
    /\ UNCHANGED <<tvVars, chatVars, dcssVars, dbVars>>

\* TwitchChannel.send_chat on the channel of `source`; fail: the IRC
\* library raises IRCError
TwSendChatMessage(source, message, is_action, fail) ==
    /\ call_in = NoCall
    /\ tw_connected
    /\ tw_get_channel(TwState, source) # NoChannel
    /\ LET T == send_channel(TwState, tw_get_channel(TwState, source),
                             fail, now)
           sent == T.log[1].result = "transmitted"
       IN  /\ TwCommit(T)
           /\ call_in' = [op |-> "send_chat", service |-> "twitch",
                          message |-> message, is_action |-> is_action]
           /\ call_out' = [transmitted |-> sent,
                           payload |-> IF sent
                                       THEN tw_send_chat_text(message,
                                                              is_action)
                                       ELSE NoPayload]
    /\ tv_check' = NoCheck
    /\ UNCHANGED tw_connected
    /\ UNCHANGED <<now, dcss_logged_in, wtOwnVars, chatVars, dcssVars,
                   dbVars>>

\* a game session is being watched in the autowatch slot
InitSendChat ==
    /\ now = StartTime
    /\ subscription = [u \in Users |-> 0]
    /\ dcss_logged_in = TRUE
    /\ lobby_entries = <<>>
    /\ lobby_complete = FALSE
    /\ autowatch = 1
    /\ subscriber_conns = {}
    /\ conns = [c \in ConnIds |->
                   IF c = 1
                   THEN [NewGameConnection("alice", "dcss-0.32")
                             EXCEPT !.watching = TRUE,
                                          !.logged_in = TRUE]
                   ELSE NoConnection]
    /\ watch_queue = <<>>
    /\ pc = "sleep"
    /\ qsnap = <<>>
    /\ qi = 0
    /\ qdrop = FALSE
    /\ qlog = [u \in Users |-> NoLog]
    /\ events = 0
    /\ stop_pc = "none"
    /\ stop_todo = {}
    /\ lobby_task = TRUE
    /\ InitTV
    /\ InitChat
    /\ InitDcss
    /\ call_in = NoCall
    /\ call_out = NoCall
    /\ InitDb

NextSendChat ==
    \/ TwConnect
    \/ \E c \in ConnIds, m \in ChatMessages, a, f \in BOOLEAN :
           WtSendChatMessage(c, m, a, f)
    \/ \E m \in ChatMessages, a, f \in BOOLEAN :
           TwSendChatMessage(BotNick, m, a, f)

SpecSendChat == InitSendChat /\ [][NextSendChat]_vars

(***************************************************************************)
(* ChatWatcher.parse_bot_command.  A message is the sequence of its        *)
(* characters; the result is None, a raised BotCommandException or the     *)
(* tuple (target_user, command, args).                                     *)
(***************************************************************************)
MaxCommandLen == 5
MaxPad == 1
CommandChars == {" ", "!", "j", "k", "n", "a", "^"}
CommandMessages == SeqsUpTo(CommandChars, MaxCommandLen)
ParseSenders == {"admin", "eve"}

bot_command_prefix == <<"!">>
admin_target_prefix == <<"^">>
\* manager.bot_commands: j has one optional argument whose pattern matches
\* any text, n has one required argument whose pattern matches letters
\* only, k has no argument and is flagged require_admin
bot_commands == {<<"j">>, <<"k">>, <<"n">>}
CommandArgs(command) == IF command = <<"k">> THEN 0 ELSE 1
ArgRequired(command) == command = <<"n">>
ArgLetters == {"j", "k", "n", "a"}
ArgMatches(command, arg) ==
    \/ command = <<"j">>
    \/ /\ arg # <<>>
       /\ \A k \in 1..Len(arg) : arg[k] \in ArgLetters
require_admin(command) == command = <<"k">>

\* message.rstrip() left out
rstrip_skipped(s) == s

RECURSIVE rstrip(_)
rstrip(s) ==
    IF s # <<>> /\ s[Len(s)] = " "
    THEN rstrip(SubSeq(s, 1, Len(s) - 1))
    ELSE s

RECURSIVE lstrip(_)
lstrip(s) ==
    IF s # <<>> /\ s[1] = " "
    THEN lstrip(Tail(s))
    ELSE s

\* the first run of characters of s that are not whitespace
RECURSIVE FirstToken(_)
FirstToken(s) ==
    IF s = <<>> \/ s[1] = " "
    THEN <<>>
    ELSE <<s[1]>> \o FirstToken(Tail(s))

\* str.split(maxsplit=n) for n = 0 and n = 1: whitespace before a part is
\* dropped, whitespace inside and after the last part is kept
split(s, maxsplit) ==
    LET body == lstrip(s)
        first == FirstToken(body)
        rest == lstrip(SubSeq(body, Len(first) + 1, Len(body)))
    IN  IF body = <<>>
        THEN <<>>
        ELSE IF maxsplit = 0
        THEN <<body>>
        ELSE IF rest = <<>>
        THEN <<first>>
        ELSE <<first, rest>>

ParsedNone == [kind |-> "none"]
Raised(text) == [kind |-> "raise", text |-> text]

\* get_target_user: the target and the argument text left
get_target_user(user, arg_msg) ==
    IF arg_msg = <<>>
    THEN [kind |-> "ok", target |-> <<user>>, arg_msg |-> arg_msg]
    ELSE LET new_arg_msg == split(arg_msg, 1)
             name == new_arg_msg[1]
             targeted == /\ StartsWith(name, admin_target_prefix)
                         /\ name # admin_target_prefix
             target_name == Tail(name)
             left == IF targeted /\ Len(new_arg_msg) > 1
                     THEN new_arg_msg[2]
                     ELSE arg_msg
         IN  IF ~targeted
             THEN [kind |-> "ok", target |-> <<user>>, arg_msg |-> arg_msg]
             ELSE IF ~user_is_admin(user)
             THEN Raised("You must be an admin to specify a target user.")
             ELSE [kind |-> "ok", target |-> target_name, arg_msg |-> left]

\* get_command_usage: the prefix, the command and the descriptions of its
\* arguments, an optional one in brackets
get_command_usage(command) ==
    IF command = <<"n">> THEN "Usage: !n <text>"
    ELSE IF command = <<"j">> THEN "Usage: !j [<text>]"
    ELSE "Usage: !k"

\* get_bot_command_args for a command with at most one argument: the
\* arguments, or the usage error raised
get_bot_command_args(command, arg_msg) ==
    LET args == IF arg_msg # <<>>
                THEN split(arg_msg, CommandArgs(command) - 1)
                ELSE <<>>
        valid == /\ ~(ArgRequired(command) /\ Len(args) = 0)
                 /\ Len(args) > 0 => ArgMatches(command, args[1])
    IN  IF CommandArgs(command) = 0
        THEN [kind |-> "ok", args |-> <<>>]
        ELSE IF ~valid
        THEN Raised(get_command_usage(command))
        ELSE [kind |-> "ok", args |-> args]

Allowed == [kind |-> "ok"]

\* check_bot_command_restrictions that lets everyone run every command
check_bot_command_restrictions_none(user, command) == Allowed

\* check_bot_command_restrictions; single_user is off and no command is
\* flagged require_user_source or require_bot_source
check_bot_command_restrictions(user, command) ==
    IF user_is_admin(user)
    THEN Allowed
    ELSE IF require_admin(command)
    THEN Raised("This command must be run by an admin.")
    ELSE Allowed

parse_bot_command(user, message0) ==
    LET message == rstrip(message0)
        body == SubSeq(message, Len(bot_command_prefix) + 1, Len(message))
        arg_msg == split(body, 1)
        command == arg_msg[1]
        args_text == IF Len(arg_msg) > 1 THEN arg_msg[2] ELSE <<>>
        r == check_bot_command_restrictions(user, command)
        t == get_target_user(user, args_text)
        a == get_bot_command_args(command, t.arg_msg)
    IN  IF \/ ~StartsWith(message, bot_command_prefix)
           \/ message = bot_command_prefix
        THEN ParsedNone
        ELSE IF arg_msg = <<>>
        THEN Raised("IndexError")
        ELSE IF command \notin bot_commands
        THEN ParsedNone
        ELSE IF r.kind = "raise"
        THEN r
        ELSE IF t.kind = "raise"
        THEN t
        ELSE IF a.kind = "raise"
        THEN a
        ELSE [kind |-> "tuple", target |-> t.target, command |-> command,
              args |-> a.args]

Spaces(n) == [k \in 1..n |-> " "]

\* parse_bot_command is called on a message and on the same message with
\* whitespace put around it
ParseCommand(user, message, lead, trail) ==
    /\ call_in' = [op |-> "parse_bot_command", user |-> user,
                   message |-> message, lead |-> lead, trail |-> trail]
    /\ call_out' = [plain |-> parse_bot_command(user, message),
                    padded |-> parse_bot_command(user,
                                   Spaces(lead) \o message \o Spaces(trail))]
    /\ UNCHANGED <<now, wtVars, tvVars, chatVars, dcssVars, dbVars>>

\* one call in a behaviour
ParseStep ==
    /\ call_in = NoCall
    /\ \E u \in ParseSenders, m \in CommandMessages, l, t \in 0..MaxPad :
           ParseCommand(u, m, l, t)

NextParse == ParseStep

SpecParse == Init /\ [][NextParse]_vars

SpecDb == Init /\ [][NextDb]_vars

(***************************************************************************)
(* ChatWatcher.read_chat on the text of chat messages: the message is      *)
(* parsed by parse_bot_command, and the command rate limit applies to what *)
(* the parsing makes of it.                                                *)
(***************************************************************************)
\* chat messages read in a run: commands that run, commands whose parsing
\* raises (restriction, target, arguments), a query and chatter
CommandLines == {<<"!", "j">>, <<"!", "k">>, <<"!", "k", " ", "^", "a">>,
                 <<"!", "j", " ", "^", "a">>, <<"!", "n">>,
                 <<"!", "n", " ", "a">>, <<"%">>, <<"a">>}
CommandSenders == {"admin", "eve", login_user}

NoReply == "None"
NoHandler == [kind |-> "none"]

\* read_chat that records only the commands that parse
records_attempt_parsed_only(admin, invalid_usage) ==
    ~admin /\ ~invalid_usage

\* read_chat: an attempted command of a non-admin is recorded in
\* message_times before the test of invalid_usage
records_attempt(admin, invalid_usage) == ~admin

ReadChatMessage(sender, message) ==
    /\ \E parsed \in {parse_bot_command(sender, message)},
          times \in {expire_message_times(message_times, now)},
          at_limit \in {at_command_limit(message_times, now)} :
       LET admin == user_is_admin(sender)
           command_time == now
           invalid_usage == parsed.kind = "raise"
           bot_cmd == parsed.kind = "tuple"
           dcss == is_dcss_command(message)
           kind == IF invalid_usage THEN "bad_command"
                   ELSE IF bot_cmd THEN "command"
                   ELSE IF dcss THEN "query"
                   ELSE "chatter"
           reply == IF invalid_usage /\ (admin \/ ~at_limit)
                    THEN parsed.text
                    ELSE NoReply
           Read(replied, ran, recorded) ==
               [sender |-> sender, kind |-> kind, window |-> InWindow(now),
                replied |-> replied, ran |-> ran, recorded |-> recorded]
           Out(r, handler, recorded) ==
               [parsed |-> parsed, reply |-> r, handler |-> handler,
                recorded |-> recorded, at_limit |-> at_limit,
                window |-> InWindow(now)]
       IN  /\ call_in' = [op |-> "read_chat", sender |-> sender,
                          message |-> message, time |-> command_time]
           /\ IF sender = login_user \/ ~is_allowed_user(sender)
              THEN /\ chat_last' = Read(FALSE, FALSE, FALSE)
                   /\ call_out' = Out(NoReply, NoHandler, FALSE)
                   /\ UNCHANGED <<message_times, attempts, executed>>
              ELSE IF ~invalid_usage /\ ~bot_cmd /\ ~dcss
              THEN /\ chat_last' = Read(FALSE, FALSE, FALSE)
                   /\ call_out' = Out(NoReply, NoHandler, FALSE)
                   /\ message_times' = times
                   /\ UNCHANGED <<attempts, executed>>
              ELSE IF ~admin /\ at_limit
              THEN /\ chat_last' = Read(FALSE, FALSE, FALSE)
                   /\ call_out' = Out(reply, NoHandler, FALSE)
                   /\ message_times' = times
                   /\ UNCHANGED <<attempts, executed>>
              ELSE LET recorded == records_attempt(admin, invalid_usage)
                   IN  /\ chat_last' = Read(invalid_usage, ~invalid_usage,
                                            recorded)
                       /\ call_out' = Out(reply,
                                          IF bot_cmd THEN parsed
                                          ELSE NoHandler,
                                          recorded)
                       /\ message_times' = IF recorded
                                           THEN Append(times, command_time)
                                           ELSE times
                       /\ attempts' = IF recorded
                                      THEN Append(attempts, command_time)
                                      ELSE attempts
                       /\ executed' = IF recorded /\ ~invalid_usage
                                      THEN Append(executed, command_time)
                                      ELSE executed
    /\ UNCHANGED <<now, wtVars, tvVars, dcssVars, dbVars>>

NextCommand ==
    \/ \E s \in CommandSenders, m \in CommandLines : ReadChatMessage(s, m)
    \/ ChatAdvanceTime

SpecCommand == Init /\ [][NextCommand]_vars

(***************************************************************************)
(* parse_chat of webtiles.py.  Text is the sequence of its characters.     *)
(* The content of a chat message is given as the two span texts its        *)
(* pattern  <span..>([^<]+)</span>: <span..>([^<]+)</span>  looks for.     *)
(***************************************************************************)
\* the entities parse_chat replaces, in the order of its replace calls
UnescapeTable ==
    << [entity |-> <<"&", "a", "m", "p", ";">>, text |-> <<"&">>],
       [entity |-> <<"&", "A", "M", "P", ";">>, text |-> <<"&">>],
       [entity |-> <<"&", "p", "e", "r", "c", "n", "t", ";">>,
        text |-> <<"%">>],
       [entity |-> <<"&", "g", "t", ";">>, text |-> <<">">>],
       [entity |-> <<"&", "l", "t", ";">>, text |-> <<"<">>],
       [entity |-> <<"&", "q", "u", "o", "t", ";">>, text |-> <<"\"">>],
       [entity |-> <<"&", "a", "p", "o", "s", ";">>, text |-> <<"'">>],
       [entity |-> <<"&", "#", "3", "9", ";">>, text |-> <<"'">>],
       [entity |-> <<"&", "n", "b", "s", "p", ";">>, text |-> <<" ">>] >>

\* str.replace(old, new): the occurrences of old from left to right, not
\* overlapping
RECURSIVE replace(_, _, _)
replace(s, old, new) ==
    IF Len(s) < Len(old)
    THEN s
    ELSE IF SubSeq(s, 1, Len(old)) = old
    THEN new \o replace(SubSeq(s, Len(old) + 1, Len(s)), old, new)
    ELSE <<s[1]>> \o replace(Tail(s), old, new)

\* the replace calls of parse_chat from call i on
RECURSIVE unescape_from(_, _)
unescape_from(s, i) ==
    IF i > Len(UnescapeTable)
    THEN s
    ELSE unescape_from(replace(s, UnescapeTable[i].entity,
                               UnescapeTable[i].text), i + 1)

unescape(s) == unescape_from(s, 1)

\* the text written for an entity by an escaping of its ampersand
Escaped(entity) == <<"&", "a", "m", "p", ";">> \o Tail(entity)

\* the pieces chat texts are put together from: the entities, what follows
\* the ampersand in them, and plain characters
ChatPieces ==
    {UnescapeTable[i].entity : i \in DOMAIN UnescapeTable}
    \cup {Tail(UnescapeTable[i].entity) : i \in DOMAIN UnescapeTable}
    \cup {<<"&">>, <<"x">>, <<"<">>}

MaxPieces == 2

RECURSIVE PiecesUpTo(_)
PiecesUpTo(n) ==
    IF n = 0
    THEN {<<>>}
    ELSE LET shorter == PiecesUpTo(n - 1)
         IN  shorter \cup {p \o s : p \in ChatPieces, s \in shorter}

ChatTexts == PiecesUpTo(MaxPieces)
ChatUsers == {<<"e">>, <<>>}

\* ([^<]+)
SpanText(s) == s # <<>> /\ \A i \in DOMAIN s : s[i] # "<"

\* parse_chat: None when the pattern does not match, else (user, command)
parse_chat(user, text) ==
    IF ~(SpanText(user) /\ SpanText(text))
    THEN [matched |-> FALSE, user |-> <<>>, command |-> <<>>]
    ELSE [matched |-> TRUE, user |-> user, command |-> unescape(text)]

ParseChat(user, text) ==
    /\ call_in' = [op |-> "parse_chat", user |-> user, text |-> text]
    /\ call_out' = parse_chat(user, text)
    /\ UNCHANGED <<now, wtVars, tvVars, chatVars, dcssVars, dbVars>>

ParseChatStep ==
    /\ call_in = NoCall
    /\ \E user \in ChatUsers, text \in ChatTexts : ParseChat(user, text)

NextParseChat == ParseChatStep

SpecParseChat == Init /\ [][NextParseChat]_vars

(***************************************************************************)
(* A game session that stops itself.  GameConnection.start calls           *)
(* webtiles_manager.stop_connection(self) and waits for it inside the task *)
(* that stop_connection cancels.  Task.cancel() of the running task only   *)
(* marks it: CancelledError is raised in it at its next suspension.        *)
(***************************************************************************)
\* where start or send_chat calls stop_connection(self)
StopCauses == {"connect", "timeout", "read", "message", "send_chat"}

\* conn.disconnect() run by a task: `open` tells whether the connection has
\* a WebSocket, `must_cancel` whether the task has a cancellation pending,
\* `suspends` whether closing the WebSocket has to wait.  A pending
\* cancellation is raised at the wait and the close does not finish.
disconnect(open, must_cancel, suspends) ==
    IF ~open
    THEN [closed |-> TRUE, raised |-> FALSE]
    ELSE IF suspends /\ must_cancel
    THEN [closed |-> FALSE, raised |-> TRUE]
    ELSE [closed |-> TRUE, raised |-> FALSE]

\* stop_connection(self) called from the task of session c
SelfStop(c, cause, suspends) ==
    /\ EnvStep
    /\ conns[c].task = "running"
    /\ LET S == stop_connection(SchedState, c, now)
           d == disconnect(cause # "connect", TRUE, suspends)
       IN  /\ autowatch' = S.aw
           /\ subscriber_conns' = S.subs
           /\ conns' = S.cn
           /\ watch_queue' = S.wq
           /\ call_in' = [op |-> "stop_connection", conn |-> c,
                          cause |-> cause, suspends |-> suspends]
           /\ call_out' = [raised |-> d.raised,
                           in_slot |-> c = S.aw \/ c \in S.subs,
                           task |-> S.cn[c].task,
                           socket_closed |-> d.closed]
    /\ UNCHANGED <<now, subscription, dcss_logged_in, lobby_entries,
                   lobby_complete, schedLocals, stopVars>>
    /\ UNCHANGED <<tvVars, chatVars, dcssVars, dbVars>>

\* an autowatch session for alice and a subscriber session for bob
InitSession ==
    /\ now = StartTime
    /\ subscription = [u \in Users |-> IF u = "bob" THEN 1 ELSE 0]
    /\ dcss_logged_in = TRUE
    /\ lobby_entries =
           <<[username |-> "alice", game_id |-> "dcss-0.32",
              spectator_count |-> 1, idle_time |-> 0,
              time_last_update |-> StartTime],
             [username |-> "bob", game_id |-> "dcss-0.32",
              spectator_count |-> 0, idle_time |-> 0,
              time_last_update |-> StartTime]>>
    /\ lobby_complete = TRUE
    /\ autowatch = 1
    /\ subscriber_conns = {2}
    /\ conns = [c \in ConnIds |->
                   IF c = 1
                   THEN NewGameConnection("alice", "dcss-0.32")
                   ELSE IF c = 2
                   THEN NewGameConnection("bob", "dcss-0.32")
                   ELSE NoConnection]
    /\ watch_queue = add_queue(<<>>, "bob", "dcss-0.32")
    /\ pc = "sleep"
    /\ qsnap = <<>>
    /\ qi = 0
    /\ qdrop = FALSE
    /\ qlog = [u \in Users |-> NoLog]
    /\ events = 0
    /\ stop_pc = "none"
    /\ stop_todo = {}
    /\ lobby_task = TRUE
    /\ InitTV
    /\ InitChat
    /\ InitDcss
    /\ InitDb
    /\ call_in = NoCall
    /\ call_out = NoCall

NextSession ==
    \/ \E c \in ConnIds : WatchingStarted(c)
    \/ \E c \in ConnIds, m \in GameMessages, l \in LibOutcomes :
          GameMessage(c, m, l)
    \/ \E c \in ConnIds, cause \in StopCauses, s \in BOOLEAN :
          SelfStop(c, cause, s)
    \/ WtAdvanceTime

SpecSession == InitSession /\ [][NextSession]_vars

(***************************************************************************)
(* The login and watch handshake of a game session (GameConnection.start). *)
(* A session whose connect() has returned has sent its login; the server   *)
(* answers with login_success, the session then sends its watch request    *)
(* and the server answers with watching_started.                           *)
(***************************************************************************)
\* webtiles.py: _REQUEST_TIMEOUT
REQUEST_TIMEOUT == 10

\* GameConnection.request_timeout
request_timeout(conn, t) ==
    /\ conn.time_since_request # NoTime
    /\ t - conn.time_since_request >= REQUEST_TIMEOUT

\* the test of GameConnection.start for sending the watch request
needs_watch_request(conn) ==
    /\ conn.logged_in
    /\ conn.game_username # None
    /\ ~conn.watching
    /\ conn.time_since_request = NoTime

\* login_success is read by session c: the webtiles package sets logged_in,
\* GameConnection.handle_message clears time_since_request
LoginSuccess(c) ==
    /\ EnvStep
    /\ conns[c].task = "running"
    /\ ~conns[c].logged_in
    /\ conns' = [conns EXCEPT ![c].logged_in = TRUE,
                              ![c].time_since_request = NoTime]
    /\ UNCHANGED <<now, subscription, dcss_logged_in, lobby_entries,
                   lobby_complete, autowatch, subscriber_conns, watch_queue,
                   schedLocals, stopVars>>
    /\ UNCHANGED <<tvVars, chatVars, dcssVars, callVars, dbVars>>

\* watching_started is read by session c, which has sent its watch request
WatchAnswered(c) ==
    /\ conns[c].time_since_request # NoTime
    /\ WatchingStarted(c)

\* one pass of the loop of GameConnection.start of session c, up to its
\* read: the session stops itself on a request timeout, and otherwise sends
\* the watch request when it is logged in and has not sent it
StartPass(c) ==
    /\ Suspended
    /\ conns[c].task = "running"
    /\ LET timeout == request_timeout(conns[c], now)
           S == IF timeout
                THEN stop_connection(SchedState, c, now)
                ELSE IF needs_watch_request(conns[c])
                THEN [SchedState EXCEPT !.cn[c].time_since_request = now]
                ELSE SchedState
       IN  /\ autowatch' = S.aw
           /\ subscriber_conns' = S.subs
           /\ conns' = S.cn
           /\ watch_queue' = S.wq
           /\ call_in' = [op |-> "start", conn |-> c, self |-> conns[c],
                          time |-> now]
           /\ call_out' = [stopped |-> timeout,
                           in_slot |-> c = S.aw \/ c \in S.subs,
                           task |-> S.cn[c].task]
    /\ UNCHANGED <<now, subscription, dcss_logged_in, lobby_entries,
                   lobby_complete, schedLocals, stopVars, events>>
    /\ UNCHANGED <<tvVars, chatVars, dcssVars, dbVars>>

NextHandshake ==
    \/ \E c \in ConnIds : LoginSuccess(c)
    \/ \E c \in ConnIds : WatchAnswered(c)
    \/ \E c \in ConnIds : StartPass(c)
    \/ WtAdvanceTime

SpecHandshake == InitSession /\ [][NextHandshake]_vars

(***************************************************************************)
(* Shutdown.  BeemServer.stop runs as a task of its own: it waits for      *)
(* WebTilesManager.stop and then cancels the task of                       *)
(* WebTilesManager.start.  stop is cut at its suspensions, the disconnect  *)
(* calls; the scheduler and the sessions run in between.                   *)
(***************************************************************************)
\* stop up to lobby.disconnect(): the task of the lobby is cancelled.
\* `reset` tells whether the disconnect of the webtiles package forgets the
\* lobby entries it has read.
StopStart(reset) ==
    /\ Suspended
    /\ stop_pc = "none"
    /\ stop_pc' = "lobby"
    /\ lobby_task' = FALSE
    /\ lobby_entries' = IF reset THEN <<>> ELSE lobby_entries
    /\ lobby_complete' = IF reset THEN FALSE ELSE lobby_complete
    /\ UNCHANGED <<now, subscription, dcss_logged_in, autowatch,
                   subscriber_conns, conns, watch_queue, schedLocals,
                   events, stop_todo>>
    /\ UNCHANGED <<tvVars, chatVars, dcssVars, callVars, dbVars>>

\* if self.autowatch: stop_connection(self.autowatch), up to its disconnect
StopAutowatch ==
    /\ Suspended
    /\ stop_pc = "lobby"
    /\ autowatch # NoConn
    /\ LET S == stop_connection(SchedState, autowatch, now)
       IN  /\ autowatch' = S.aw
           /\ subscriber_conns' = S.subs
           /\ conns' = S.cn
           /\ watch_queue' = S.wq
    /\ stop_pc' = "autowatch"
    /\ UNCHANGED <<now, subscription, dcss_logged_in, lobby_entries,
                   lobby_complete, schedLocals, events, stop_todo,
                   lobby_task>>
    /\ UNCHANGED <<tvVars, chatVars, dcssVars, callVars, dbVars>>

\* stop is about to enter its loop over list(self.subscriber_conns)
StopAtLoop ==
    \/ stop_pc = "autowatch"
    \/ stop_pc = "lobby" /\ autowatch = NoConn

\* the connections the loop has still to stop
StopRest == IF stop_pc = "subs" THEN stop_todo ELSE subscriber_conns

\* one pass of the loop: stop_connection(conn), up to its disconnect.  The
\* list is in the order of the set it was made from: any order.
StopSubscriber(c) ==
    /\ Suspended
    /\ StopAtLoop \/ stop_pc = "subs"
    /\ c \in StopRest
    /\ LET S == IF conns[c].task = "running"
                THEN stop_connection(SchedState, c, now)
                ELSE SchedState
       IN  /\ autowatch' = S.aw
           /\ subscriber_conns' = S.subs
           /\ conns' = S.cn
           /\ watch_queue' = S.wq
    /\ stop_pc' = "subs"
    /\ stop_todo' = StopRest \ {c}
    /\ UNCHANGED <<now, subscription, dcss_logged_in, lobby_entries,
                   lobby_complete, schedLocals, events, lobby_task>>
    /\ UNCHANGED <<tvVars, chatVars, dcssVars, callVars, dbVars>>

\* the loop is over: self.watch_queue = [], stop returns and BeemServer.stop
\* cancels the task of WebTilesManager.start
StopEnd ==
    /\ Suspended
    /\ StopAtLoop \/ stop_pc = "subs"
    /\ StopRest = {}
    /\ watch_queue' = <<>>
    /\ stop_pc' = "done"
    /\ stop_todo' = {}
    /\ UNCHANGED <<now, subscription, dcss_logged_in, lobby_entries,
                   lobby_complete, autowatch, subscriber_conns, conns,
                   schedLocals, events, lobby_task>>
    /\ UNCHANGED <<tvVars, chatVars, dcssVars, callVars, dbVars>>

NextShutdown ==
    \/ TickStart
    \/ QueueStart
    \/ QueueResume
    \/ TickEnd
    \/ \E c \in ConnIds : SessionStop(c)
    \/ \E c \in ConnIds : WatchingStarted(c)
    \/ \E v \in BOOLEAN : DcssReady(v)
    \/ \E u \in Users, g \in GameIds :
          LobbyEntry(u, g, min_autowatch_spectators, 0)
    \/ LobbyComplete
    \/ WtAdvanceTime
    \/ \E r \in BOOLEAN : StopStart(r)
    \/ StopAutowatch
    \/ \E c \in ConnIds : StopSubscriber(c)
    \/ StopEnd

SpecShutdown == InitSession /\ [][NextShutdown]_vars
(***************************************************************************)
(* Properties of the watch scheduler.                                      *)
(***************************************************************************)
\* the sessions that run outside the subscriber slot set
NonSubscriberSessions ==
    {c \in ConnIds : conns[c].task = "running" /\ c \notin subscriber_conns}

\* C1: in every reachable state, whatever the interleaving of ticks, session
\* self-stops and stop_connection calls, the subscriber slot set holds at
\* most max_watched_subscribers sessions, and at most one session runs
\* outside it: the one the autowatch slot refers to.
C1_SlotCapacity ==
    /\ Cardinality(subscriber_conns) <= max_watched_subscribers
    /\ Cardinality(NonSubscriberSessions) <= 1
    /\ NonSubscriberSessions \subseteq {autowatch}

\* both kinds of slot are full
C1_Witness ==
    /\ Cardinality(subscriber_conns) = max_watched_subscribers
    /\ autowatch # NoConn
    /\ conns[autowatch].task = "running"

\* the outcomes of process_queue for an entry after which its game has a
\* session, or a session was refused with the subscriber slots full
Served(u) ==
    \/ qlog[u].out \in {"kept", "promoted", "started"}
    \/ /\ qlog[u].out = "refused"
       /\ qlog[u].nsubs >= max_watched_subscribers

\* C3 as stated: at the end of every tick, every queue entry whose game has
\* a lobby entry, whose user is eligible, whose game is not idle and whose
\* last watch ended at least REWATCH_WAIT ago has a session or was refused
\* one for lack of a free subscriber slot.
C3_AsStated ==
    pc = "done" => \A u \in Users : qlog[u].pre => Served(u)

\* C3 amended: the same, for the ticks at which the knowledge-bot router is
\* logged in when the entry is processed.
C3_ServedWhenReady ==
    pc = "done" =>
        \A u \in Users : (qlog[u].pre /\ qlog[u].ready) => Served(u)

\* an entry that could be watched is refused while the router is logged in
C3_Witness ==
    /\ pc = "done"
    /\ \E u \in Users : /\ qlog[u].pre
                         /\ qlog[u].ready
                         /\ qlog[u].out = "refused"


\* the sessions that hold the autowatch slot or a subscriber slot
SlotSessions == subscriber_conns \cup ({autowatch} \ {NoConn})

\* C33: the autowatch session is not in the subscriber set, and no two
\* sessions that hold a slot are on the same (username, game_id).
C33_OneSessionPerGame ==
    /\ autowatch = NoConn \/ autowatch \notin subscriber_conns
    /\ \A c, d \in SlotSessions :
           (/\ c # d
            /\ conns[c].game_username # None
            /\ conns[c].game_username = conns[d].game_username
            /\ conns[c].game_id = conns[d].game_id)
           => FALSE

\* a subscriber is watched in the autowatch slot while another game holds
\* the subscriber slot
C33_Witness ==
    /\ autowatch # NoConn
    /\ conns[autowatch].task = "running"
    /\ conns[autowatch].game_username \in Users
    /\ user_is_subscribed(conns[autowatch].game_username)
    /\ \E c \in subscriber_conns :
           /\ conns[c].task = "running"
           /\ conns[c].game_username \in Users
           /\ conns[c].game_username # conns[autowatch].game_username

(***************************************************************************)
(* The Twitch message budget.                                              *)
(***************************************************************************)
TvAttempts == {tv_log[k] : k \in 1..Len(tv_log)}

\* C4: a join, a part or a chat message to a channel the bot does not
\* moderate is transmitted only while message_count is below message_limit;
\* once a normal message was sent in the window nothing is transmitted at or
\* above message_limit; a message to a moderated channel is transmitted only
\* below moderator_message_limit; a suppressed message leaves message_count,
\* time_last_message and sent_normal_message as they were.
C4_MessageBudget ==
    \A a \in TvAttempts :
        /\ (a.result = "transmitted" /\ (a.is_normal \/ a.sent_normal))
               => a.count < message_limit
        /\ (a.result = "transmitted" /\ ~a.is_normal)
               => a.count < moderator_message_limit
        /\ a.result = "suppressed"
               => /\ a.count1 = a.count
                  /\ a.tlm1 = a.tlm
                  /\ a.sent_normal1 = a.sent_normal

C4_Witness ==
    \E a \in TvAttempts :
        /\ a.kind = "chat"
        /\ a.result = "suppressed"
        /\ a.count = message_limit
        /\ a.sent_normal

\* C5 as stated: when the manager loop finds message_count above 0 and more
\* than message_timeout has passed since the last message transmitted, it
\* resets message_count to 0 and sent_normal_message to false.
C5_WindowClears ==
    (tv_check.count > 0 /\ tv_check.elapsed) => tv_check.cleared

(***************************************************************************)
(* The command rate limit.                                                 *)
(***************************************************************************)
Suppressed(r) == ~r.replied /\ ~r.ran /\ ~r.recorded

\* C6: a command or query of a non-admin is suppressed (no reply, handler
\* not run, nothing recorded) exactly when command_limit attempts of
\* non-admins are recorded within the command_period before it, and is
\* recorded otherwise; a command of an admin is never suppressed and never
\* recorded.
C6_CommandLimit ==
    (/\ chat_last.sender # None
     /\ is_allowed_user(chat_last.sender)
     /\ chat_last.kind # "chatter")
    => IF user_is_admin(chat_last.sender)
       THEN ~Suppressed(chat_last) /\ ~chat_last.recorded
       ELSE /\ Suppressed(chat_last) <=> chat_last.window >= command_limit
            /\ ~Suppressed(chat_last) => chat_last.recorded
            /\ chat_last.window <= command_limit

C6_Witness ==
    /\ chat_last.sender = "eve"
    /\ chat_last.kind = "query"
    /\ chat_last.window = command_limit
    /\ Suppressed(chat_last)
    /\ Len(attempts) > command_limit

(***************************************************************************)
(* The knowledge-bot query router.                                         *)
(***************************************************************************)
Lowest(ids) == CHOOSE i \in ids : \A j \in ids : i <= j

\* C2 as stated: a reply of the bot that echoes prefixes is delivered only
\* to the source of the query the bot answers, and only when that query was
\* submitted less than MAX_REQUEST_TIME before; a reply to an older query
\* is dropped, also when its id has been given to a later query.
C2_StaleReplyDropped ==
    (ev.op = "reply" /\ ev.bot = "Sequell" /\ ev.to # None)
    => /\ ev.to = ev.origin_source
       /\ now - ev.origin_time < MAX_REQUEST_TIME

\* C7 as stated: an allocation takes the lowest id that holds no query
\* younger than MAX_REQUEST_TIME and fails only when every id holds one.
C7_AsStated ==
    ev.op = "submit"
    => /\ ev.ok <=> ev.busy # QueryIds
       /\ ev.ok => ev.id = Lowest(QueryIds \ ev.busy)

\* C7 amended: an allocation takes the lowest id that neither holds a query
\* younger than MAX_REQUEST_TIME nor is the id of the query answered last,
\* if that query is younger than MAX_REQUEST_TIME; it fails, adding no
\* entry, exactly when there is no such id.
C7_LowestFreeId ==
    ev.op = "submit"
    => LET free == QueryIds \ (ev.busy \cup {ev.reserved})
       IN  /\ ev.ok <=> free # {}
           /\ ev.ok => /\ ev.id = Lowest(free)
                       /\ HeldIds(ev.bot) = ev.busy \cup {ev.id}
           /\ ~ev.ok => HeldIds(ev.bot) = ev.busy

C7_Witness ==
    /\ ev.op = "submit"
    /\ ~ev.ok
    /\ ev.reserved \in QueryIds
    /\ ev.busy # QueryIds

\* C8: the table of a bot holds at most one query per id of the id space,
\* and after an allocation or a reply lookup every query left in the table
\* of that bot is younger than MAX_REQUEST_TIME.
C8_TableBounded ==
    /\ \A b \in BotNicks :
           /\ Cardinality(queries[b]) <= NumIds
           /\ \A q \in queries[b] : q.id \in QueryIds
           /\ \A q1, q2 \in queries[b] : q1.id = q2.id => q1 = q2
    /\ ev.op \in {"submit", "reply"}
           => \A q \in queries[ev.bot] : now - q.time < MAX_REQUEST_TIME

C8_Witness ==
    /\ ev.op \in {"submit", "reply"}
    /\ ev.held # ev.busy
    /\ queries[ev.bot] # {}

\* C9 as stated: a reply of the bot that echoes no prefix is delivered to
\* the source of the query the bot answers.
C9_FifoAttribution ==
    (ev.op = "reply" /\ ev.bot = "Cheibriados" /\ ev.to # None)
    => ev.to = ev.origin_source

Relayed(q) ==
    /\ q.id = ev.id
    /\ q.requester = ev.requester
    /\ q.source_ident = ev.source
    /\ q.time = now
    /\ q.type \in {"monster", "git"}

Place(seq, x) == CHOOSE k \in 1..Len(seq) : seq[k] = x

\* the ids of `new` are ids of `old`, in the order they have in `old`
InOrderOf(new, old) ==
    /\ \A k \in 1..Len(new) : \E j \in 1..Len(old) : old[j] = new[k]
    /\ \A j, k \in 1..Len(new) :
           j < k => Place(old, new[j]) < Place(old, new[k])

\* the queue of the bot holds the ids of its pending queries, each once
QueueIsPending(bot) ==
    /\ {queue[bot][k] : k \in 1..Len(queue[bot])} = HeldIds(bot)
    /\ Len(queue[bot]) = Cardinality(HeldIds(bot))

\* a step keeps the ids left in the queue in their order and puts the id
\* of a query submitted by the step behind them
QueueInSubmissionOrder(bot) ==
    \/ InOrderOf(queue'[bot], queue[bot])
    \/ /\ ev'.id \in QueryIds
       /\ ev'.ok
       /\ queue'[bot] # <<>>
       /\ queue'[bot][Len(queue'[bot])] = ev'.id
       /\ InOrderOf(SubSeq(queue'[bot], 1, Len(queue'[bot]) - 1),
                    queue[bot])

\* C36: for the bot that echoes no prefix, after every operation of the
\* router (a submission, a reply lookup, an expiry) the queue of the bot
\* holds exactly the ids of the pending queries of the bot, each id once,
\* in the order in which the queries were submitted.
C36_QueueIsPendingInOrder ==
    /\ [](\A b \in BotNicks : ~EchoesPrefix(b) => QueueIsPending(b))
    /\ [][\A b \in BotNicks :
              ~EchoesPrefix(b) => QueueInSubmissionOrder(b)]_vars

\* a query was submitted under an id lower than that of an older pending
\* query, after the expiry of the query answered last
C36_Witness ==
    /\ ev.op = "submit"
    /\ ev.ok
    /\ queue["Cheibriados"] = <<1, 0>>
    /\ HeldIds("Cheibriados") = {0, 1}

(***************************************************************************)
(* The autowatch candidate.                                                *)
(***************************************************************************)
LobbyConn(k) ==
    get_connection(SchedState, lobby_entries[k].username,
                   lobby_entries[k].game_id)

\* the entries that compete for the autowatch slot
Competes(k) ==
    LET entry == lobby_entries[k]
    IN  /\ autowatch_enabled
        /\ dcss_logged_in
        /\ is_game_allowed(entry.username, entry.game_id)
        /\ EffectiveIdle(entry, now) < max_game_idle
        /\ entry.spectator_count >= min_autowatch_spectators
        /\ \/ ~user_is_subscribed(entry.username)
           \/ /\ LobbyConn(k) \notin subscriber_conns
              /\ Cardinality(subscriber_conns) >= max_watched_subscribers

Competitors == {k \in 1..Len(lobby_entries) : Competes(k)}

TopCompetitors ==
    {k \in Competitors :
        \A j \in Competitors :
            lobby_entries[j].spectator_count
                <= lobby_entries[k].spectator_count}

GameOf(k) == <<lobby_entries[k].username, lobby_entries[k].game_id>>

\* C11: the candidate process_lobby returns is an entry with the greatest
\* spectator count among the entries that compete for the autowatch slot,
\* none when no entry competes, and the game autowatched now when that game
\* is among the competing entries with the greatest count.
C11_AutowatchCandidate ==
    call_in.op = "process_lobby"
    => /\ Competitors = {} <=> call_out.game = <<>>
       /\ Competitors # {}
              => \E k \in TopCompetitors : call_out.game = GameOf(k)
       /\ \A k \in TopCompetitors :
              (autowatch # NoConn /\ LobbyConn(k) = autowatch)
                  => call_out.game = GameOf(k)

C11_Witness ==
    /\ call_in.op = "process_lobby"
    /\ Cardinality(TopCompetitors) >= 2
    /\ \E k \in TopCompetitors :
           /\ k > 1
           /\ autowatch # NoConn
           /\ LobbyConn(k) = autowatch
           /\ call_out.game = GameOf(k)

\* the entries that compete by the wording "the user is not subscribed or
\* all subscriber slots are taken"
CompetesAsWorded(k) ==
    LET entry == lobby_entries[k]
    IN  /\ autowatch_enabled
        /\ dcss_logged_in
        /\ is_game_allowed(entry.username, entry.game_id)
        /\ EffectiveIdle(entry, now) < max_game_idle
        /\ entry.spectator_count >= min_autowatch_spectators
        /\ \/ ~user_is_subscribed(entry.username)
           \/ Cardinality(subscriber_conns) >= max_watched_subscribers

\* the spectators of the game process_lobby returned
ReturnedSpectators ==
    LET k == CHOOSE j \in 1..Len(lobby_entries) : call_out.game = GameOf(j)
    IN  lobby_entries[k].spectator_count

\* C32 as stated: an entry competes for the autowatch slot (process_lobby
\* returns a game with at least its spectators, and returns no entry that
\* does not compete) exactly when it is eligible and not idle, autowatch is
\* enabled, the router is ready, it has min_autowatch_spectators or more,
\* and its user is not subscribed or all subscriber slots are taken.
C32_AsStated ==
    call_in.op = "process_lobby"
    => \A k \in 1..Len(lobby_entries) :
           /\ call_out.game = GameOf(k) => CompetesAsWorded(k)
           /\ CompetesAsWorded(k)
                  => /\ call_out.game # <<>>
                     /\ ReturnedSpectators
                            >= lobby_entries[k].spectator_count

\* C32 amended: the same, where a subscribed user's entry competes when all
\* subscriber slots are taken and the session of its game, if any, holds
\* none of them.
C32_CompetesWhen ==
    call_in.op = "process_lobby"
    => \A k \in 1..Len(lobby_entries) :
           /\ call_out.game = GameOf(k) => Competes(k)
           /\ Competes(k)
                  => /\ call_out.game # <<>>
                     /\ ReturnedSpectators
                            >= lobby_entries[k].spectator_count

\* the game of a subscribed user was returned, and the entry of a user who
\* holds the subscriber slot was passed over with as many spectators
C32_Witness ==
    /\ call_in.op = "process_lobby"
    /\ \E k, j \in 1..Len(lobby_entries) :
           /\ call_out.game = GameOf(k)
           /\ user_is_subscribed(lobby_entries[k].username)
           /\ CompetesAsWorded(j)
           /\ ~Competes(j)
           /\ lobby_entries[j].spectator_count
                  >= lobby_entries[k].spectator_count

(***************************************************************************)
(* Stopping sessions and ineligible users.                                 *)
(***************************************************************************)
\* session c watches a game that has a watch-queue entry
WatchesQueued(c) ==
    /\ conns[c].task = "running"
    /\ conns[c].watching
    /\ c = autowatch \/ c \in subscriber_conns
    /\ get_queue_entry(watch_queue, conns[c].game_username) # 0

\* C12 as stated: when a session watching a game with a watch-queue entry
\* is stopped, it is removed from its slot and the time_end of that entry,
\* if the entry is still queued, is the time of the stop.
C12_StopStampsEnd ==
    [][\A c \in ConnIds :
           (WatchesQueued(c) /\ conns'[c] = NoConnection)
           => /\ autowatch' # c
              /\ c \notin subscriber_conns'
              /\ LET k == get_queue_entry(watch_queue',
                                          conns[c].game_username)
                 IN  k # 0 => watch_queue'[k].time_end = now']_vars

\* session c is held in a slot for a game of user u
SessionOf(c, u) ==
    /\ c = autowatch \/ c \in subscriber_conns
    /\ conns[c].task = "running"
    /\ conns[c].game_username = u

SessionOfNext(c, u) ==
    /\ c = autowatch' \/ c \in subscriber_conns'
    /\ conns'[c].task = "running"
    /\ conns'[c].game_username = u

\* a pass of the scheduler loop that runs from sleep to the end of
\* process_queue without suspending
WholeTick == pc = "sleep" /\ pc' = "done"

\* C13 as stated: a pass of the scheduler that finds a session watching a
\* user whose subscription is -1 stops that session, whatever the lobby and
\* the watch queue hold.
C13_AsStated ==
    [][\A u \in Users : \A c \in ConnIds :
           (WholeTick /\ subscription[u] = -1 /\ SessionOf(c, u))
           => ~SessionOfNext(c, u)]_vars

\* the step runs the loop of process_queue
QueueStep ==
    /\ pc \in {"sleep", "process_queue", "stop_connection"}
    /\ <<pc, qi>>' # <<pc, qi>>
    /\ pc' \in {"stop_connection", "done"}

\* the queue entries the step goes through, by position in its snapshot
StepSnapshot ==
    IF pc = "stop_connection" THEN qsnap ELSE QueueSnapshot(watch_queue)

StepPositions ==
    (IF pc = "stop_connection" THEN qi + 1 ELSE 1) ..
    (IF pc' = "stop_connection" THEN qi' ELSE Len(StepSnapshot))

\* C13: while a user's subscription is -1, (a) no step starts a session
\* for that user; (b) a scheduler pass that finds the autowatch session on
\* a game of that user which has a lobby entry takes the session off that
\* game; (c) process_queue, on reaching the watch-queue entry of that user,
\* stops the session watching the user and goes no further in that step.
C13_UnsubscribedNotWatched ==
    [][\A u \in Users :
         subscription[u] = -1 =>
           /\ \A c \in ConnIds :
                  (subscription'[u] = -1 /\ SessionOfNext(c, u))
                  => SessionOf(c, u)
           /\ ( /\ pc = "sleep" /\ pc' # "sleep"
                /\ autowatch # NoConn
                /\ SessionOf(autowatch, u)
                /\ get_lobby_entry(u, conns[autowatch].game_id) # 0 )
              => ~SessionOfNext(autowatch, u)
           /\ \A k \in StepPositions :
                  ( /\ QueueStep
                    /\ k <= Len(StepSnapshot)
                    /\ StepSnapshot[k] = u
                    /\ \E c \in ConnIds : SessionOf(c, u) )
                  => /\ pc' = "stop_connection"
                     /\ qi' = k
                     /\ \A c \in ConnIds : ~SessionOfNext(c, u)]_vars

\* an unsubscribed user's session has just been stopped by process_queue
C13_Witness ==
    /\ pc = "stop_connection"
    /\ subscription[qsnap[qi]] = -1
    /\ qlog[qsnap[qi]].out = "stopped"
    /\ \A c \in ConnIds : ~SessionOf(c, qsnap[qi])

(***************************************************************************)
(* The Twitch manager: counting, eviction and parting.                     *)
(***************************************************************************)
\* C14 as stated: an outbound action raises message_count by exactly one
\* when it is transmitted, and an attempt that transmits nothing leaves
\* message_count as it was.
C14_CountsTransmissions ==
    \A a \in TvAttempts :
        /\ a.result = "transmitted" => a.count1 = a.count + 1
        /\ a.result # "transmitted" => a.count1 = a.count

Max(S) == CHOOSE x \in S : \A y \in S : y <= x

\* C15 as stated: the channel evicted to admit a queued channel is the one
\* with the greatest idle time among the joined channels idle for min_idle
\* or more.
C15_EvictsMostIdle ==
    \A e \in tv_check.evicted : e.idle = Max(e.idles)

JoinedUsers == {c.game_username : c \in channels}

\* C16 as stated: after a part command for a user whose channel is joined,
\* the bot is outside that channel and stays outside it until a new join
\* request is made for the user.
C16_PartedStaysOut == tw_parted \cap JoinedUsers = {}

\* C27 as stated: when new_channel has admitted a queued user, with or
\* without evicting an idle channel, the channel set holds a channel of that
\* user, the JOIN was sent for the IRC channel of that user, and the channel
\* evicted is not in the set.
C27_AdmittedIsJoined ==
    \A a \in tv_check.admitted :
        /\ a.for \in a.joined
        /\ a.irc = a.for
        /\ a.victim # None => a.victim \notin a.joined

\* C28 as stated: a part that fails leaves the channel in the channel set,
\* so that the channel set holds the channel of every user whose IRC
\* channel the bot has joined and not parted.
C28_JoinedAreInSet ==
    tw_joined \subseteq JoinedUsers \cup {BotNick}

(***************************************************************************)
(* Escaping of outbound chat.                                              *)
(***************************************************************************)
\* C17: a message that starts with "!" and is not sent as an action is
\* transmitted by send_chat, on a WebTiles session and on a Twitch channel,
\* as "]" followed by the message, and no payload transmitted for a message
\* that is not an action starts with "!".
C17_BangEscaped ==
    (call_in.op = "send_chat" /\ ~call_in.is_action /\ call_out.transmitted)
    => /\ call_in.message[1] = "!"
              => call_out.payload = <<"]">> \o call_in.message
       /\ call_out.payload[1] # "!"

C17_Witness ==
    /\ call_in.op = "send_chat"
    /\ call_in.service = "twitch"
    /\ ~call_in.is_action
    /\ call_in.message = <<"!", "!">>
    /\ call_out.transmitted
    /\ call_out.payload = <<"]", "!", "!">>

(***************************************************************************)
(* What the command rate limit counts.                                     *)
(***************************************************************************)
\* the last message read was a command or query of a non-admin and was
\* rejected for the rate limit
RateLimited ==
    /\ chat_last.sender # None
    /\ is_allowed_user(chat_last.sender)
    /\ ~user_is_admin(chat_last.sender)
    /\ chat_last.kind # "chatter"
    /\ Suppressed(chat_last)

\* the commands of non-admins that ran within command_period before t
ExecutedInWindow(t) ==
    Cardinality({k \in 1..Len(executed) : t - executed[k] < command_period})

\* C18 as stated: when a command is rejected for the rate limit, at least
\* command_limit commands of non-admins were accepted and executed within
\* the command_period before it.
C18_AsStated == RateLimited => ExecutedInWindow(now) >= command_limit

\* C18: when a command is rejected for the rate limit, at least
\* command_limit command attempts of non-admins were accepted within the
\* command_period before it, whether they ran or were answered with a usage
\* error.
C18_AttemptsCounted ==
    RateLimited => /\ InWindow(now) >= command_limit
                   /\ ExecutedInWindow(now) <= InWindow(now)

C18_Witness ==
    /\ RateLimited
    /\ InWindow(now) >= command_limit
    /\ ExecutedInWindow(now) < command_limit

(***************************************************************************)
(* Parsing of bot commands.                                                *)
(***************************************************************************)
\* the call parsed a command message with whitespace put around it
ParsedCommand ==
    /\ call_in.op = "parse_bot_command"
    /\ call_out.plain.kind = "tuple"

\* C19 as stated: a command message and the same message with whitespace
\* before and after it parse to the same (target, command, args).
C19_AsStated == ParsedCommand => call_out.padded = call_out.plain

\* C19: a command message and the same message with whitespace after it
\* parse to the same (target, command, args); with whitespace before it the
\* message is not a command.
C19_TrailingWhitespace ==
    ParsedCommand => IF call_in.lead = 0
                     THEN call_out.padded = call_out.plain
                     ELSE call_out.padded = ParsedNone

C19_Witness ==
    /\ ParsedCommand
    /\ call_in.lead = 0
    /\ call_in.trail > 0
    /\ call_in.message = <<"!", "j", " ", "a">>
    /\ call_out.padded.kind = "tuple"
    /\ call_out.padded.args = <<<<"a">>>>

(***************************************************************************)
(* The user database.                                                      *)
(***************************************************************************)
SameUpToCase(a, b) == lower(a) = lower(b)

\* C20: after add_row(table, row) has added a row whose key was not
\* present, get_row(table, k) returns the row entry add_row returned, which
\* carries the fields of the row, for every k equal to the row's key up to
\* letter case; after load_db, get_row(table, k) returns each row of the
\* backing store for every k equal to its key up to letter case.
C20_AddThenGet ==
    /\ (call_in.op = "add_row" /\ ~call_out.raised)
       => /\ call_out.entry.username = call_in.row.username
          /\ "subscription" \in DOMAIN call_in.row
                 => call_out.entry.subscription = call_in.row.subscription
          /\ \A k \in Names :
                 SameUpToCase(k, call_in.row.username)
                 => get_row(db_data, call_in.table, <<k>>) = call_out.entry
    /\ call_in.op = "load_db"
       => \A t \in DbTables : \A r \in db_store[t] : \A k \in Names :
              SameUpToCase(k, r.username)
              => get_row(db_data, t, <<k>>) = r

C20_Witness ==
    /\ call_in.op = "add_row"
    /\ ~call_out.raised
    /\ call_in.row.username = <<"E">>
    /\ get_row(db_data, call_in.table, <<<<"e">>>>) = call_out.entry
    /\ db_store[call_in.table] # {}

(***************************************************************************)
(* Claims on add_row's failures (SpecDb)                                   *)
(***************************************************************************)
\* the key of the row is in the in-memory copy of the table, whatever the
\* letter case of the name
KeyExists(data, table, row) ==
    /\ "username" \in DOMAIN row
    /\ \E e \in data[table] : e.key = <<lower(row.username)>>

\* C21: add_row with a key that already exists, compared without regard to
\* letter case, raises and changes neither the sqlite3 table nor the
\* in-memory copy; a call that raises leaves the in-memory copy as it was,
\* the in-memory copy changes only in a call that also wrote the sqlite3
\* table, and a call that returns has put the row in both.
C21_AddRowFailures ==
    [][call_in'.op = "add_row" =>
          LET table == call_in'.table
              row == call_in'.row
          IN  /\ KeyExists(db_data, table, row) =>
                     /\ call_out'.raised
                     /\ db_data' = db_data
                     /\ db_store' = db_store
              /\ call_out'.raised => db_data' = db_data
              /\ db_data' # db_data => db_store' # db_store
              /\ ~call_out'.raised =>
                     /\ call_out'.entry \in db_store'[table]
                     /\ \E e \in db_data'[table] :
                            e.entry = call_out'.entry]_vars

\* add_row has raised for a name stored in another letter case
C21_Witness ==
    /\ call_in.op = "add_row"
    /\ call_out.raised
    /\ "username" \in DOMAIN call_in.row
    /\ \E e \in db_data[call_in.table] :
           /\ e.key = <<lower(call_in.row.username)>>
           /\ e.entry.username # call_in.row.username
    /\ db_store[call_in.table] =
           {e.entry : e \in db_data[call_in.table]}

(***************************************************************************)
(* Claims on the messages a game session reads (SpecWT)                    *)
(***************************************************************************)
\* session c reads the message msg in this step
Reads(c, msg) == \E lib \in LibOutcomes : GameMessage(c, msg, lib)

\* the watch of session c is torn down in this step: the session is not
\* watching any more and the queue entry of its game carries the time of
\* the step as its time_end
TornDown(c) ==
    /\ ~conns'[c].watching
    /\ LET k == get_queue_entry(watch_queue, conns[c].game_username)
       IN  k # 0 => /\ Len(watch_queue') >= k
                    /\ watch_queue'[k].time_end = now

\* C22: a game_ended message read by a game session that is not watching
\* changes no session and no scheduler state; a go_lobby message read by a
\* session that is watching tears the watch down: the session leaves the
\* watching state and the queue entry of its game starts its rewatch
\* cooldown.
C22_EndOfGameMessages ==
    [][\A c \in ConnIds :
           /\ (Reads(c, "game_ended") /\ ~conns[c].watching) =>
                  UNCHANGED <<autowatch, subscriber_conns, conns,
                              watch_queue>>
           /\ (Reads(c, "go_lobby") /\ conns[c].watching) =>
                  TornDown(c)]_vars

(***************************************************************************)
(* Claims on parse_chat (SpecParseChat)                                    *)
(***************************************************************************)
\* C23: the unescape of parse_chat is a single pass, text produced by
\* replacing one entity is never unescaped again: for every entity of the
\* table, unescaping its doubly-escaped form (&amp;gt; for &gt;) gives
\* another text than unescaping the entity itself.
C23_SinglePass ==
    \A i \in DOMAIN UnescapeTable :
        (/\ call_in.op = "parse_chat"
         /\ call_out.matched
         /\ call_in.text = Escaped(UnescapeTable[i].entity)) =>
            call_out.command # unescape(UnescapeTable[i].entity)

(***************************************************************************)
(* Claims on a session that stops itself (SpecSession)                     *)
(***************************************************************************)
\* C24: when a game session stops itself from inside its own task (on a
\* handshake timeout, a connect failure, a read error, a message-handling
\* error or a chat send failure), the teardown runs to completion: the
\* session is out of its slot, its task has ended and its WebSocket is
\* closed.
C24_SelfStopCompletes ==
    call_in.op = "stop_connection" =>
        /\ ~call_out.in_slot
        /\ call_out.task # "running"
        /\ call_out.socket_closed

(***************************************************************************)
(* Claims on shutdown (SpecShutdown)                                       *)
(***************************************************************************)
\* C25: once the stop of the server has completed, whatever the scheduler
\* did while the teardown was suspended, the subscriber set is empty, the
\* autowatch slot is empty, the watch queue is empty and no session task
\* started by the scheduler is running.
C25_NothingLeft ==
    stop_pc = "done" =>
        /\ subscriber_conns = {}
        /\ autowatch = NoConn
        /\ watch_queue = <<>>
        /\ \A c \in ConnIds : conns[c].task # "running"

\* C26: a reply of the bot that echoes prefixes for which the router finds
\* no query (its id is neither the id of a pending query nor the id of the
\* query answered last) is dropped: nothing is sent to a chat source, no
\* query younger than MAX_REQUEST_TIME is removed, no error escapes the
\* router task, and the task goes on reading messages.
C26_UnknownIdDropped ==
    (ev.op = "reply" /\ ev.bot = "Sequell" /\ ev.source = None)
    => /\ ev.to = None
       /\ \A q \in queries[ev.bot] : q.id \in ev.held
       /\ ~ev.raised
       /\ dcss_alive

(***************************************************************************)
(* The watch queue in process_queue.                                       *)
(***************************************************************************)
\* the users of the sequence `names` that are in the set `among`
Restrict(names, among) ==
    LET In(u) == u \in among
    IN  SelectSeq(names, In)

\* a step leaves in the watch queue every entry that no iteration of
\* process_queue has removed, and the entries in their relative order
QueueKeepsOthers ==
    LET old == QueueSnapshot(watch_queue)
        new == QueueSnapshot(watch_queue')
        Set(q) == {q[k] : k \in 1..Len(q)}
    IN  /\ \A u \in Set(old) \ Set(new) : qlog'[u].removed
        /\ Restrict(new, Set(old)) = Restrict(old, Set(new))

\* C29 as stated: an iteration of process_queue removes its entry exactly
\* when the user is not allowed, or the game is idle, or the game has no
\* lobby entry and game_rewatch_timeout has passed since the time_end of the
\* entry (an entry without time_end is taken, as in the code, for one whose
\* time_end is long past); every other entry stays in the queue, in its
\* relative order.
C29_AsStated ==
    [][/\ \A u \in Users :
              qlog'[u].fin
              => (qlog'[u].removed
                  <=> \/ ~qlog'[u].allowed
                      \/ qlog'[u].idle
                      \/ /\ ~qlog'[u].lobby
                         /\ \/ qlog'[u].time_end = NoTime
                            \/ qlog'[u].elapsed >= game_rewatch_timeout)
       /\ QueueKeepsOthers]_vars

\* C29 amended: an iteration of process_queue that does not promote the
\* autowatch session of its entry removes the entry exactly when the user is
\* not allowed, or the game is idle, or the game has no lobby entry and the
\* entry either has no time_end or game_rewatch_timeout has passed since its
\* time_end; an iteration that promotes removes nothing; every other entry
\* stays in the queue, in its relative order.
C29_RemovedWhen ==
    [][/\ \A u \in Users :
              qlog'[u].fin
              => (qlog'[u].removed
                  <=> /\ qlog'[u].out # "promoted"
                      /\ \/ ~qlog'[u].allowed
                         \/ qlog'[u].idle
                         \/ /\ ~qlog'[u].lobby
                            /\ \/ qlog'[u].time_end = NoTime
                               \/ qlog'[u].elapsed >= game_rewatch_timeout)
       /\ QueueKeepsOthers]_vars

\* the autowatch session of an entry whose game has left the lobby was
\* promoted, and the entry is still in the queue
C29_Witness ==
    \E u \in Users :
        /\ qlog[u].fin
        /\ qlog[u].out = "promoted"
        /\ ~qlog[u].lobby
        /\ ~qlog[u].removed
        /\ get_queue_entry(watch_queue, u) # 0

\* C30: process_queue starts a subscriber session for an entry only when
\* the router is logged in, the game has a lobby entry, the game has no
\* session, a subscriber slot is free and the entry has no time_end or
\* REWATCH_WAIT has passed since its time_end; an entry that is refused a
\* session with the slots full stays in the queue as it was; and every
\* tick tries again every entry of the queue: at the end of a tick each
\* entry has been processed, and one that met the conditions and was not
\* removed was started or refused.
C30_StartOnlyWhen ==
    /\ \A u \in Users :
           qlog[u].out = "started"
           => /\ qlog[u].ready
              /\ qlog[u].lobby
              /\ ~qlog[u].session
              /\ qlog[u].nsubs < max_watched_subscribers
              /\ \/ qlog[u].time_end = NoTime
                 \/ qlog[u].elapsed >= REWATCH_WAIT
    /\ \A u \in Users :
           qlog[u].out = "refused"
           => /\ qlog[u].nsubs >= max_watched_subscribers
              /\ get_queue_entry(watch_queue, u) # 0
              /\ watch_queue[get_queue_entry(watch_queue, u)].time_end
                     = qlog[u].time_end
    /\ pc = "done"
       => \A k \in 1..Len(watch_queue) :
              LET l == qlog[watch_queue[k].username]
              IN  /\ l.out # "none"
                  /\ (/\ l.ready
                      /\ l.lobby
                      /\ ~l.session
                      /\ l.allowed
                      /\ ~l.idle
                      /\ (l.time_end = NoTime \/ l.elapsed >= REWATCH_WAIT))
                     => l.out \in {"started", "refused"}

\* an entry whose cooldown had passed was refused a session, the slots
\* being full, and is in the queue at the end of the tick
C30_Witness ==
    \E u \in Users :
        /\ pc = "done"
        /\ qlog[u].out = "refused"
        /\ qlog[u].time_end # NoTime
        /\ qlog[u].elapsed >= REWATCH_WAIT
        /\ get_queue_entry(watch_queue, u) # 0

(***************************************************************************)
(* The autowatch slot.                                                     *)
(***************************************************************************)
\* the step is a pass of the scheduler that finds no autowatch candidate
\* while the autowatch slot holds a session on a game
ChecksAutowatch ==
    /\ pc = "sleep"
    /\ pc' # "sleep"
    /\ ~lobby_complete \/ process_lobby(SchedState, now).game = <<>>
    /\ autowatch # NoConn
    /\ conns[autowatch].game_username \in Users

AutowatchLobby ==
    get_lobby_entry(conns[autowatch].game_username, conns[autowatch].game_id)

\* the reasons of check_current_autowatch that need no lobby entry
AutowatchBarred ==
    \/ ~is_game_allowed(conns[autowatch].game_username,
                        conns[autowatch].game_id)
    \/ ~dcss_logged_in

AutowatchIdle ==
    /\ AutowatchLobby # 0
    /\ EffectiveIdle(lobby_entries[AutowatchLobby], now) >= max_game_idle

\* the step has stopped the autowatch session and emptied the slot
AutowatchStopped ==
    /\ autowatch' = NoConn
    /\ conns'[autowatch].task # "running"

\* the check has left the autowatch session alone: it is as it was, unless
\* process_queue, in the same step, has stopped or promoted it
AutowatchKept ==
    /\ pc' # "process_queue"
    /\ \/ autowatch' = autowatch /\ conns'[autowatch] = conns[autowatch]
       \/ qlog'[conns[autowatch].game_username].out
              \in {"stopped", "promoted"}

\* C31 as stated: a pass that finds no autowatch candidate stops the
\* autowatch session and empties the slot when its game is not permitted,
\* the router is not ready or its effective idle is max_game_idle or more,
\* and keeps it in every other case.
C31_AsStated ==
    [][ChecksAutowatch
       => IF AutowatchBarred \/ AutowatchIdle
          THEN AutowatchStopped
          ELSE AutowatchKept]_vars

\* C31 amended: a pass that finds no autowatch candidate stops the
\* autowatch session and empties the slot, suspending before process_queue,
\* when the game of the session has a lobby entry and is not permitted, or
\* the router is not ready, or its effective idle is max_game_idle or more;
\* it leaves the session alone in every other case, whatever the number of
\* spectators of the game.
C31_StoppedWhenInLobby ==
    [][ChecksAutowatch
       => IF AutowatchLobby # 0 /\ (AutowatchBarred \/ AutowatchIdle)
          THEN AutowatchStopped /\ pc' = "process_queue"
          ELSE AutowatchKept]_vars

\* the autowatch session is on a game whose spectators are fewer than
\* min_autowatch_spectators, after a pass that found no candidate
C31_Witness ==
    /\ pc = "done"
    /\ autowatch # NoConn
    /\ conns[autowatch].task = "running"
    /\ AutowatchLobby # 0
    /\ lobby_entries[AutowatchLobby].spectator_count
           < min_autowatch_spectators
    /\ ~lobby_complete \/ process_lobby(SchedState, now).game = <<>>

(***************************************************************************)
(* Promotion of the autowatch session by process_queue.                    *)
(***************************************************************************)
\* the step has run the iteration of process_queue for the entry of u, and
\* the game of the entry was in the autowatch slot
AutowatchedEntry(u) ==
    /\ qlog[u].out = "none"
    /\ qlog'[u].out # "none"
    /\ qlog'[u].conn # NoConn
    /\ qlog'[u].conn = qlog'[u].aw

\* the session of the entry of u is in the subscriber set and the autowatch
\* slot is empty; the session runs on as it was and the entry has the
\* time_end it had
Promoted(u) ==
    LET c == qlog'[u].conn
        e == get_queue_entry(watch_queue', u)
    IN  /\ qlog'[u].out = "promoted"
        /\ c \in subscriber_conns'
        /\ autowatch' = NoConn
        /\ conns'[c].task = "running"
        /\ conns'[c].game_username = u
        /\ conns[c].task = "running" => conns'[c] = conns[c]
        /\ e # 0
        /\ watch_queue'[e].time_end = qlog'[u].time_end

\* the session of the entry of u is still in the autowatch slot, as it was
StaysAutowatch(u) ==
    LET c == qlog'[u].conn
    IN  /\ autowatch' = c
        /\ c \notin subscriber_conns'
        /\ conns'[c].task = "running"
        /\ conns[c].task = "running" => conns'[c] = conns[c]

\* C34 as stated: when the game of a queue entry is in the autowatch slot
\* and a subscriber slot is free, process_queue moves the session to the
\* subscriber set and empties the autowatch slot, without stopping the
\* session and without changing the entry; when no subscriber slot is free
\* the session stays in the autowatch slot.
C34_AsStated ==
    [][\A u \in Users :
           AutowatchedEntry(u)
           => IF qlog'[u].nsubs < max_watched_subscribers
              THEN Promoted(u)
              ELSE StaysAutowatch(u)]_vars

\* C34 amended: the same for a session process_queue has no reason to stop;
\* when the user is not allowed, the router is not ready or the game is
\* idle, the session is stopped, whether a subscriber slot is free or not.
C34_PromotedUnlessStopped ==
    [][\A u \in Users :
           AutowatchedEntry(u)
           => IF ~qlog'[u].allowed \/ ~qlog'[u].ready \/ qlog'[u].idle
              THEN /\ qlog'[u].out = "stopped"
                   /\ conns'[qlog'[u].conn].task # "running"
              ELSE IF qlog'[u].nsubs < max_watched_subscribers
              THEN Promoted(u)
              ELSE StaysAutowatch(u)]_vars

\* the autowatch session of a queued subscriber was promoted
C34_Witness ==
    \E u \in Users :
        /\ qlog[u].out = "promoted"
        /\ qlog[u].conn \in subscriber_conns
        /\ autowatch = NoConn
        /\ conns[qlog[u].conn].watching

(***************************************************************************)
(* Claims on the handshake of a game session (SpecHandshake)               *)
(***************************************************************************)
\* the session that made the loop pass had an unanswered request for
\* REQUEST_TIMEOUT or longer: its login, sent by connect() at StartTime, or
\* its watch request
HandshakeOverdue(conn, t) ==
    \/ /\ ~conn.logged_in
       /\ t - StartTime >= REQUEST_TIMEOUT
    \/ /\ conn.time_since_request # NoTime
       /\ t - conn.time_since_request >= REQUEST_TIMEOUT

\* C35: a game session that has connected and has not received
\* login_success, or has sent its watch request and has not received
\* watching_started, for REQUEST_TIMEOUT or longer is stopped by the next
\* pass of its loop and is then in no subscriber or autowatch slot.
C35_HandshakeTimesOut ==
    (call_in.op = "start" /\ HandshakeOverdue(call_in.self, call_in.time)) =>
        /\ call_out.stopped
        /\ ~call_out.in_slot
        /\ call_out.task # "running"

(***************************************************************************)
(* Claims on command restrictions and target users (SpecParse)             *)
(***************************************************************************)
\* the command word and the first argument of a chat message
CommandBody(m) == SubSeq(rstrip(m), Len(bot_command_prefix) + 1,
                         Len(rstrip(m)))
CommandWord(m) == split(CommandBody(m), 1)[1]
FirstArgument(m) ==
    IF Len(split(CommandBody(m), 1)) > 1
    THEN FirstToken(split(CommandBody(m), 1)[2])
    ELSE <<>>

\* parse_bot_command was called on a message that names a command
NamesCommand(m) ==
    /\ StartsWith(rstrip(m), bot_command_prefix)
    /\ rstrip(m) # bot_command_prefix
    /\ CommandWord(m) \in bot_commands

NamesTarget(m) ==
    /\ StartsWith(FirstArgument(m), admin_target_prefix)
    /\ FirstArgument(m) # admin_target_prefix

\* C38: for a command the sender may run: a non-admin whose first argument
\* is the admin-target prefix followed by a name gets the fixed message and
\* no command; an admin's command with such an argument gets the named
\* user as target (or the usage error of its other arguments); and when
\* the first argument is the prefix alone the command fails, for admins
\* and non-admins alike.
C38_TargetResolution ==
    call_in.op = "parse_bot_command" =>
    LET m == call_in.message
    IN  (/\ NamesCommand(m)
         /\ user_is_admin(call_in.user) \/ ~require_admin(CommandWord(m)))
        => /\ (NamesTarget(m) /\ ~user_is_admin(call_in.user))
              => call_out.plain =
                     Raised("You must be an admin to specify a target user.")
           /\ (NamesTarget(m) /\ user_is_admin(call_in.user))
              => \/ /\ call_out.plain.kind = "tuple"
                    /\ call_out.plain.target = Tail(FirstArgument(m))
                 \/ call_out.plain =
                        Raised(get_command_usage(CommandWord(m)))
           /\ FirstArgument(m) = admin_target_prefix
              => call_out.plain.kind = "raise"

\* the first two parts of C38 alone
NamedTargetsResolved ==
    call_in.op = "parse_bot_command" =>
    LET m == call_in.message
    IN  (/\ NamesCommand(m)
         /\ user_is_admin(call_in.user) \/ ~require_admin(CommandWord(m)))
        => /\ (NamesTarget(m) /\ ~user_is_admin(call_in.user))
              => call_out.plain =
                     Raised("You must be an admin to specify a target user.")
           /\ (NamesTarget(m) /\ user_is_admin(call_in.user))
              => \/ /\ call_out.plain.kind = "tuple"
                    /\ call_out.plain.target = Tail(FirstArgument(m))
                 \/ call_out.plain =
                        Raised(get_command_usage(CommandWord(m)))

(***************************************************************************)
(* Claims on commands read from chat (SpecCommand)                         *)
(***************************************************************************)
RestrictionMessage == "This command must be run by an admin."

\* read_chat read a command flagged require_admin from a sender who is not
\* an admin, is not the bot and may use the bot
RestrictedCommandRead ==
    /\ call_in.op = "read_chat"
    /\ call_in.sender # login_user
    /\ is_allowed_user(call_in.sender)
    /\ ~user_is_admin(call_in.sender)
    /\ NamesCommand(call_in.message)
    /\ require_admin(CommandWord(call_in.message))

\* C37 as stated: a command flagged require_admin from a sender who is not
\* an admin is not executed: the handler is not called and the fixed
\* restriction message is sent to chat, whatever the arguments.
C37_AsStated ==
    RestrictedCommandRead
    => /\ call_out.handler = NoHandler
       /\ call_out.reply = RestrictionMessage

\* C37 amended: a command flagged require_admin from a sender who is not
\* an admin is never executed: whatever the arguments, parsing raises the
\* fixed restriction message before the target user and the arguments are
\* looked at and the handler is not called; the message is sent to chat
\* unless the sender is at the command limit, and then nothing is sent.
C37_RestrictedNeverRuns ==
    RestrictedCommandRead
    => /\ call_out.handler = NoHandler
       /\ call_out.parsed = Raised(RestrictionMessage)
       /\ call_out.reply = IF call_out.at_limit
                           THEN NoReply
                           ELSE RestrictionMessage
       /\ call_out.at_limit <=> call_out.window >= command_limit

\* a restricted command that names a target user is answered with the
\* restriction message
C37_Witness ==
    /\ RestrictedCommandRead
    /\ call_in.message = <<"!", "k", " ", "^", "a">>
    /\ call_out.reply = RestrictionMessage
    /\ call_out.handler = NoHandler

\* read_chat read a command or query from a sender who is not an admin, is
\* not the bot and may use the bot
AttemptRead ==
    /\ call_in.op = "read_chat"
    /\ call_in.sender # login_user
    /\ is_allowed_user(call_in.sender)
    /\ ~user_is_admin(call_in.sender)
    /\ \/ call_out.parsed.kind # "none"
       \/ is_dcss_command(call_in.message)

FailingCommandRead ==
    /\ AttemptRead
    /\ call_out.parsed.kind = "raise"

\* the read put its time at the end of the rate-limit window
RecordedInWindow ==
    /\ call_out.recorded
    /\ message_times # <<>>
    /\ message_times[Len(message_times)] = call_in.time
    /\ attempts[Len(attempts)] = call_in.time

\* C39: a command of a non-admin whose parsing fails (restriction, target
\* or argument error) is recorded in the rate-limit window of the source
\* exactly as a command that parses is, and counts toward command_limit:
\* every attempt of a non-admin is recorded when fewer than command_limit
\* recorded attempts, failed ones included, lie within command_period
\* before it, and a failing command then gets its error as reply; once the
\* limit is reached a failing command gets no reply, runs nothing and is
\* not recorded.
C39_FailedCommandsCount ==
    /\ AttemptRead
       => /\ call_out.at_limit <=> call_out.window >= command_limit
          /\ IF call_out.at_limit
             THEN ~call_out.recorded /\ call_out.handler = NoHandler
             ELSE RecordedInWindow
    /\ FailingCommandRead
       => /\ call_out.handler = NoHandler
          /\ call_out.reply = IF call_out.at_limit
                              THEN NoReply
                              ELSE call_out.parsed.text

\* a failing command gets no reply at the limit, and the limit was reached
\* by failing commands alone
C39_Witness ==
    /\ FailingCommandRead
    /\ call_out.window >= command_limit
    /\ executed = <<>>
    /\ call_out.reply = NoReply
    /\ call_out.parsed.text = "Usage: !n <text>"

(***************************************************************************)
(* Claims on the reconnection of the query router (SpecManager)            *)
(***************************************************************************)
ReconnectTicks == RECONNECT_TIMEOUT * TicksPerSecond

====
